---- MODULE Spec2Model ----
(***************************************************************************)
(* od-draw: the Diagram container (od_draw/diagram/base.py) and the canvas *)
(* sizing of the SVG backend (od_draw/diagram/backends/svg.py).            *)
(*                                                                         *)
(* Spec    : one Diagram object and the calls a client can make on it.     *)
(*           A backend's render is an opaque call whose arguments are      *)
(*           recorded in `last`.                                           *)
(* SpecSVG : SVGBackend.render as a function of its arguments (the shape   *)
(*           list and the options bag), drawn from bounded sets in Init.   *)
(***************************************************************************)
EXTENDS Integers, Sequences, FiniteSets, TLC

VARIABLES
    \* fields of the Diagram object (base.py:14-27)
    width, height, units, shapes, _backend,
    _explicit_dimensions, _width_provided, _height_provided,
    \* history: arguments of the add_shape calls so far, whether set_dimensions
    \* was ever called, the argument of the latest set_backend call, and the
    \* most recent call on the diagram with what it handed to the backend
    added, dims_set, installed, last,
    \* one call of SVGBackend.render: its position, its arguments, its results
    pc, svg_shapes, svg_kwargs, svg,
    \* the results of PNGBackend.render on the same arguments
    png,
    \* one call of a constructor or function of the library (what is called,
    \* on which arguments) and what it returned or raised
    call, result

vars == << width, height, units, shapes, _backend,
           _explicit_dimensions, _width_provided, _height_provided,
           added, dims_set, installed, last, pc, svg_shapes, svg_kwargs, svg,
           png, call, result >>

diagram_vars == << width, height, units, shapes, _backend,
                   _explicit_dimensions, _width_provided, _height_provided,
                   added, dims_set, installed, last >>

svg_vars == << pc, svg_shapes, svg_kwargs, svg >>

call_vars == << call, result >>

\* everything but the Diagram object
backend_vars == << svg_vars, png, call_vars >>

-----------------------------------------------------------------------------
(* Bounds *)

\* longest shape list a diagram holds in Spec
MaxShapes == 2
\* longest shape list handed to the SVG backend in SpecSVG
MaxSvgShapes == 2

-----------------------------------------------------------------------------
(* Python values *)

\* Python's None
None == "None"

\* the empty keyword-argument dict
EmptyKwargs == << >>

\* dict.get(key, default)
Get(kwargs, key, default) ==
    IF key \in DOMAIN kwargs THEN kwargs[key] ELSE default

\* {**base, **kwargs}: the entries of kwargs win
Merge(base, kwargs) == kwargs @@ base

\* true division a / b; every division of the model is exact (DivExact below
\* holds of every input), so the quotient is the integer a \div b
Div(a, b) == a \div b

Min2(a, b) == IF a < b THEN a ELSE b
Max2(a, b) == IF a > b THEN a ELSE b

\* str.endswith on strings held as sequences of characters
endswith(s, suffix) ==
    /\ Len(s) >= Len(suffix)
    /\ SubSeq(s, Len(s) - Len(suffix) + 1, Len(s)) = suffix

-----------------------------------------------------------------------------
(* Shapes (od_draw/shapes/base.py)                                         *)
(* One record type for all classes; a field a class does not have is 0 or  *)
(* the empty sequence.                                                     *)

ShapeRecord(cls, x, y, w, h, rot, pts, r, x0, y0, x1, y1) ==
    [ cls |-> cls, x |-> x, y |-> y, width |-> w, height |-> h,
      rotation |-> rot, points |-> pts, radius |-> r,
      x0 |-> x0, y0 |-> y0, x1 |-> x1, y1 |-> y1 ]

Rectangle(x, y, w, h, rotation) ==
    ShapeRecord("Rectangle", x, y, w, h, rotation, << >>, 0, 0, 0, 0, 0)

Square(x, y, size, rotation) ==
    ShapeRecord("Square", x, y, size, size, rotation, << >>, 0, 0, 0, 0, 0)

Triangle(x, y, w, h, rotation) ==
    ShapeRecord("Triangle", x, y, w, h, rotation, << >>, 0, 0, 0, 0, 0)

RECURSIVE MinOf(_, _), MaxOf(_, _)
\* min / max of coordinate k (1 = x, 2 = y) over a non-empty point list
MinOf(pts, k) ==
    IF Len(pts) = 1 THEN pts[1][k] ELSE Min2(pts[1][k], MinOf(Tail(pts), k))
MaxOf(pts, k) ==
    IF Len(pts) = 1 THEN pts[1][k] ELSE Max2(pts[1][k], MaxOf(Tail(pts), k))

\* Polygon.__init__: the bounding box is derived from the points
Polygon(points, rotation) ==
    ShapeRecord("Polygon", MinOf(points, 1), MinOf(points, 2),
                MaxOf(points, 1) - MinOf(points, 1),
                MaxOf(points, 2) - MinOf(points, 2),
                rotation, points, 0, 0, 0, 0, 0)

\* Circle.__init__: (x, y) is the top-left of the bounding box, rotation is 0
Circle(x, y, radius) ==
    ShapeRecord("Circle", x, y, radius * 2, radius * 2, 0, << >>, radius,
                0, 0, 0, 0)

Line(x0, y0, x1, y1) ==
    ShapeRecord("Line", 0, 0, 0, 0, 0, << >>, 0, x0, y0, x1, y1)

\* a slip in Triangle.get_points: the two bottom vertices are exchanged
get_points_clockwise(t) ==
    << << t.x + Div(t.width, 2), t.y >>,
       << t.x + t.width, t.y + t.height >>,
       << t.x, t.y + t.height >> >>

\* Triangle.get_points
get_points(t) ==
    << << t.x + Div(t.width, 2), t.y >>,
       << t.x, t.y + t.height >>,
       << t.x + t.width, t.y + t.height >> >>

-----------------------------------------------------------------------------
(* Diagram (od_draw/diagram/base.py) *)

DefaultWidth == 800
DefaultHeight == 600

\* (width, height) values a client gives; 0 is a legal explicit value
DimPairs == { << 0, 0 >>, << 300, 200 >> }
Units == {"px"}

\* the shapes a client adds in Spec
ShapeArgs == { Rectangle(10, 10, 100, 50, 0), Line(3, 70, 90, 4) }

\* backend instances: the class, and who made the instance
BackendInstance(cls, inst) == [cls |-> cls, inst |-> inst]
NoBackend == BackendInstance(None, None)
SVGBackend == BackendInstance("SVGBackend", "render")
PNGBackend == BackendInstance("PNGBackend", "render")
DrawIOBackend == BackendInstance("DrawIOBackend", "render")
\* the instance a client hands to set_backend
UserBackends == { BackendInstance("DrawIOBackend", "client") }

Chars(ext) ==
    CASE ext = "svg"    -> << "a", ".", "s", "v", "g" >>
      [] ext = "png"    -> << "a", ".", "p", "n", "g" >>
      [] ext = "drawio" -> << "a", ".", "d", "r", "a", "w", "i", "o" >>
      [] OTHER          -> << "a", ".", "t", "x", "t" >>

\* output paths: a.svg, a.png, a.drawio, a.txt
Paths == { Chars(e) : e \in {"svg", "png", "drawio", "txt"} }

\* backend arguments of render: None, the three names, an unknown name
BackendArgs == { None, "svg", "png", "drawio", "pdf" }

\* keyword arguments a client passes to render
CallerKwargs ==
    { EmptyKwargs,
      "explicit_dimensions" :> TRUE,
      "explicit_dimensions" :> FALSE }

\* the record of a call that is not a render
Call(op) ==
    [ op |-> op, output_path |-> << >>, backend |-> None, before |-> NoBackend,
      rendered_by |-> NoBackend, shapes |-> << >>, kwargs |-> EmptyKwargs,
      caller_kwargs |-> EmptyKwargs, raised |-> None ]

\* a slip in base.py:27: one of the two is enough
ExplicitDimensionsEither(width_provided, height_provided) ==
    width_provided \/ height_provided

\* base.py:27
ExplicitDimensions(width_provided, height_provided) ==
    width_provided /\ height_provided

\* Diagram.__init__ with width / height given or left at the ... sentinel
DiagramInit(wp, hp, w, h, u) ==
    /\ _width_provided = wp
    /\ _height_provided = hp
    /\ width = (IF wp THEN w ELSE DefaultWidth)
    /\ height = (IF hp THEN h ELSE DefaultHeight)
    /\ units = u
    /\ shapes = << >>
    /\ _backend = NoBackend
    /\ _explicit_dimensions = ExplicitDimensions(wp, hp)
    /\ added = << >>
    /\ dims_set = FALSE
    /\ installed = NoBackend
    /\ last = Call("__init__")

\* a slip in add_shape: a shape already in the list is not added again
list_append_unique(list, shape) ==
    IF \E i \in 1..Len(list) : list[i] = shape THEN list ELSE Append(list, shape)

\* list.append, as Diagram.add_shape uses it
list_append(list, shape) == Append(list, shape)

add_shape(shape) ==
    /\ Len(shapes) < MaxShapes
    /\ shapes' = list_append(shapes, shape)
    /\ added' = Append(added, shape)
    /\ last' = Call("add_shape")
    /\ UNCHANGED << width, height, units, _backend, _explicit_dimensions,
                    _width_provided, _height_provided, dims_set, installed >>

set_dimensions(w, h) ==
    /\ width' = w
    /\ height' = h
    /\ _explicit_dimensions' = TRUE
    /\ dims_set' = TRUE
    /\ last' = Call("set_dimensions")
    /\ UNCHANGED << units, shapes, _backend, _width_provided,
                    _height_provided, added, installed >>

set_backend(backend) ==
    /\ _backend' = backend
    /\ installed' = backend
    /\ last' = Call("set_backend")
    /\ UNCHANGED << width, height, units, shapes, _explicit_dimensions,
                    _width_provided, _height_provided, added, dims_set >>

\* base.py:42-49: the if / elif chain of render
SelectBackend(output_path, backend, bound) ==
    IF backend = "svg" \/ endswith(output_path, << ".", "s", "v", "g" >>)
    THEN SVGBackend
    ELSE IF backend = "png" \/ endswith(output_path, << ".", "p", "n", "g" >>)
    THEN PNGBackend
    ELSE IF backend = "drawio"
            \/ endswith(output_path, << ".", "d", "r", "a", "w", "i", "o" >>)
    THEN DrawIOBackend
    ELSE IF bound = NoBackend
    THEN SVGBackend
    ELSE bound

\* base.py:51-58
RenderKwargs(kwargs) ==
    Merge([ width |-> width, height |-> height,
            explicit_dimensions |-> _explicit_dimensions,
            width_provided |-> _width_provided,
            height_provided |-> _height_provided ], kwargs)

\* a slip in render: the list is handed over newest first
HandedShapesReversed(list) == [ i \in 1..Len(list) |-> list[Len(list) + 1 - i] ]

\* the first argument of self._backend.render(self.shapes, ...)
HandedShapes(list) == list

render(output_path, backend, kwargs) ==
    /\ _backend' = SelectBackend(output_path, backend, _backend)
    /\ last' = [ op |-> "render", output_path |-> output_path,
                 backend |-> backend, before |-> _backend,
                 rendered_by |-> _backend',
                 shapes |-> HandedShapes(shapes),
                 kwargs |-> RenderKwargs(kwargs),
                 caller_kwargs |-> kwargs, raised |-> None ]
    /\ UNCHANGED << width, height, units, shapes, _explicit_dimensions,
                    _width_provided, _height_provided, added, dims_set,
                    installed >>

-----------------------------------------------------------------------------
(* SVGBackend (od_draw/diagram/backends/svg.py) *)

\* float("inf") and float("-inf"): beyond every coordinate of the model
PosInf == 1000000
NegInf == -1000000

\* the bounding box of an empty shape list (svg.py:15)
EmptyBoxWidth == 800
EmptyBoxHeight == 600

\* width of the ruler band (svg.py:91)
RulerBand == 30

\* math.cos(math.radians(deg)) and math.sin(math.radians(deg)) at the
\* multiples of 90 degrees (the floating-point results differ from these by
\* less than 1e-15)
Cos(deg) ==
    CASE deg % 360 = 0 -> 1
      [] deg % 360 = 90 -> 0
      [] deg % 360 = 180 -> -1
      [] deg % 360 = 270 -> 0
Sin(deg) ==
    CASE deg % 360 = 0 -> 0
      [] deg % 360 = 90 -> 1
      [] deg % 360 = 180 -> 0
      [] deg % 360 = 270 -> -1

Box(min_x, min_y, max_x, max_y) ==
    [ min_x |-> min_x, min_y |-> min_y, max_x |-> max_x, max_y |-> max_y ]

\* svg.py:37-38 and 65-66: the point (x, y) turned about (cx, cy)
Rotated(p, cx, cy, deg) ==
    << cx + (p[1] - cx) * Cos(deg) - (p[2] - cy) * Sin(deg),
       cy + (p[1] - cx) * Sin(deg) + (p[2] - cy) * Cos(deg) >>

\* svg.py:39-42: one point taken into the running box
Grow(box, p) ==
    Box(Min2(box.min_x, p[1]), Min2(box.min_y, p[2]),
        Max2(box.max_x, p[1]), Max2(box.max_y, p[2]))

RECURSIVE GrowAll(_, _), SumOf(_, _)
\* the for loops over a point list
GrowAll(box, pts) ==
    IF pts = << >> THEN box ELSE GrowAll(Grow(box, Head(pts)), Tail(pts))

\* sum(x for x, y in points) (k = 1) and sum(y for x, y in points) (k = 2)
SumOf(pts, k) ==
    IF pts = << >> THEN 0 ELSE pts[1][k] + SumOf(Tail(pts), k)

RotatedAll(pts, cx, cy, deg) ==
    [ i \in 1..Len(pts) |-> Rotated(pts[i], cx, cy, deg) ]

\* svg.py:57-62: the corners of a rotated shape's own box, in the order the
\* loop of svg.py:64-70 takes them
corners(shape) ==
    << << shape.x, shape.y >>,
       << shape.x + shape.width, shape.y >>,
       << shape.x + shape.width, shape.y + shape.height >>,
       << shape.x, shape.y + shape.height >> >>

\* a slip in svg.py:72-75: the far corner forgets the shape's origin
GrowByShapeNoOrigin(box, shape) ==
    Box(Min2(box.min_x, shape.x), Min2(box.min_y, shape.y),
        Max2(box.max_x, shape.width), Max2(box.max_y, shape.height))

\* svg.py:23-75: the body of the loop of _calculate_bounding_box.
\* isinstance(shape, Polygon) is true of Polygon alone: Rectangle, Square,
\* Triangle and Circle derive from Shape and take the last branch.
GrowByShape(box, shape) ==
    IF shape.cls = "Line"
    THEN Box(Min2(Min2(box.min_x, shape.x0), shape.x1),
             Min2(Min2(box.min_y, shape.y0), shape.y1),
             Max2(Max2(box.max_x, shape.x0), shape.x1),
             Max2(Max2(box.max_y, shape.y0), shape.y1))
    ELSE IF shape.cls = "Polygon"
    THEN IF shape.rotation # 0
         THEN LET cx == Div(SumOf(shape.points, 1), Len(shape.points))
                  cy == Div(SumOf(shape.points, 2), Len(shape.points))
              IN  GrowAll(box, RotatedAll(shape.points, cx, cy, shape.rotation))
         ELSE GrowAll(box, shape.points)
    ELSE IF shape.rotation # 0
         THEN LET cx == shape.x + Div(shape.width, 2)
                  cy == shape.y + Div(shape.height, 2)
              IN  GrowAll(box, RotatedAll(corners(shape), cx, cy,
                                          shape.rotation))
         ELSE Box(Min2(box.min_x, shape.x), Min2(box.min_y, shape.y),
                  Max2(box.max_x, shape.x + shape.width),
                  Max2(box.max_y, shape.y + shape.height))

RECURSIVE GrowByShapes(_, _)
GrowByShapes(box, list) ==
    IF list = << >> THEN box
    ELSE GrowByShapes(GrowByShape(box, Head(list)), Tail(list))

\* svg.py:12-77
_calculate_bounding_box(list) ==
    IF list = << >>
    THEN Box(0, 0, EmptyBoxWidth, EmptyBoxHeight)
    ELSE GrowByShapes(Box(PosInf, PosInf, NegInf, NegInf), list)

\* svg.py:281-287: the centre of the rotate transform an element carries
_get_transform(shape) ==
    IF shape.rotation # 0
    THEN << shape.rotation, shape.x + Div(shape.width, 2),
            shape.y + Div(shape.height, 2) >>
    ELSE << >>

\* a slip in svg.py:85-88: a side margin that is not given is 0
margin_side_zero(kwargs, key) == Get(kwargs, key, 0)

\* svg.py:84-88: kwargs.get("margin_top", margin) and the like
margin_side(kwargs, key) == Get(kwargs, key, Get(kwargs, "margin", 0))

\* svg.py:91
ruler_size(show_rulers) == IF show_rulers THEN RulerBand ELSE 0

\* the canvas policy of the PNG backend, were the SVG backend to follow it:
\* the margins are added outside a declared size as well
content_size_margins_outside(explicit_dimensions, declared, extent, lo, hi) ==
    (IF explicit_dimensions THEN declared ELSE extent) + lo + hi

\* svg.py:95-109: the content width (height) from the declared width, or
\* from the extent of the bounding box and the two margins
content_size(explicit_dimensions, declared, extent, lo, hi) ==
    IF explicit_dimensions THEN declared ELSE extent + lo + hi

\* a slip in svg.py:141-142: the offset is not normalised by the box minimum
shape_offset_unnormalised(drawing_start, margin, min) == drawing_start + margin

\* svg.py:141-142
shape_offset(drawing_start, margin, min) == drawing_start + margin - min

\* svg.py:79-143: what render computes before it emits the shapes
SVGBackend_render(list, kwargs) ==
    LET explicit_dimensions == Get(kwargs, "explicit_dimensions", FALSE)
        show_rulers == Get(kwargs, "show_rulers", FALSE)
        margin_top == margin_side(kwargs, "margin_top")
        margin_bottom == margin_side(kwargs, "margin_bottom")
        margin_left == margin_side(kwargs, "margin_left")
        margin_right == margin_side(kwargs, "margin_right")
        ruler_left == ruler_size(show_rulers)
        ruler_top == ruler_size(show_rulers)
        box == IF explicit_dimensions
               THEN Box(0, 0, Get(kwargs, "width", 800),
                        Get(kwargs, "height", 600))
               ELSE _calculate_bounding_box(list)
        content_width ==
            content_size(explicit_dimensions, Get(kwargs, "width", 800),
                         box.max_x - box.min_x, margin_left, margin_right)
        content_height ==
            content_size(explicit_dimensions, Get(kwargs, "height", 600),
                         box.max_y - box.min_y, margin_top, margin_bottom)
    IN  [ min_x |-> box.min_x, min_y |-> box.min_y,
          max_x |-> box.max_x, max_y |-> box.max_y,
          content_width |-> content_width,
          content_height |-> content_height,
          canvas_width |-> ruler_left + content_width,
          canvas_height |-> ruler_top + content_height,
          shape_offset_x |-> shape_offset(ruler_left, margin_left, box.min_x),
          shape_offset_y |-> shape_offset(ruler_top, margin_top, box.min_y) ]

-----------------------------------------------------------------------------
(* Spec: a client's calls on one diagram *)

SvgIdle ==
    /\ pc = "idle"
    /\ svg_shapes = << >>
    /\ svg_kwargs = EmptyKwargs
    /\ svg = << >>

\* no backend has rendered
PngIdle == png = << >>

\* no constructor or function is being called
CallIdle == call = << >> /\ result = << >>

Init ==
    /\ \E wp \in BOOLEAN, hp \in BOOLEAN, d \in DimPairs, u \in Units :
          DiagramInit(wp, hp, d[1], d[2], u)
    /\ SvgIdle
    /\ PngIdle
    /\ CallIdle

AddShape == \E s \in ShapeArgs : add_shape(s) /\ UNCHANGED backend_vars

SetDimensions ==
    \E d \in DimPairs : set_dimensions(d[1], d[2]) /\ UNCHANGED backend_vars

SetBackend == \E b \in UserBackends : set_backend(b) /\ UNCHANGED backend_vars

Render ==
    \E p \in Paths, b \in BackendArgs, k \in CallerKwargs :
        render(p, b, k) /\ UNCHANGED backend_vars

Next == AddShape \/ SetDimensions \/ SetBackend \/ Render

Spec == Init /\ [][Next]_vars

-----------------------------------------------------------------------------
(* SpecSVG: one call of SVGBackend.render on arguments drawn from bounded  *)
(* sets.  Rotations are multiples of 90 degrees and every x + width / 2,   *)
(* y + height / 2 and centroid of the pool is a whole number.              *)

RightTriangle == << << 0, 0 >>, << 12, 0 >>, << 0, 12 >> >>
Diamond == << << 6, 0 >>, << 12, 6 >>, << 6, 12 >>, << 0, 6 >> >>

ShapePool ==
    { Rectangle(10, 10, 100, 50, 0),
      Rectangle(0, 0, 40, 20, 90),
      Square(-10, 4, 20, 180),
      Triangle(0, 0, 40, 20, 0),
      Triangle(50, 0, 40, 20, 90),
      Polygon(RightTriangle, 0),
      Polygon(RightTriangle, 180),
      Polygon(Diamond, 90),
      Circle(5, 5, 10),
      Line(3, 70, 90, 4) }

\* every division the backend performs on the shape is exact
DivExact(shape) ==
    /\ shape.width % 2 = 0
    /\ shape.height % 2 = 0
    /\ shape.cls = "Polygon" =>
          /\ SumOf(shape.points, 1) % Len(shape.points) = 0
          /\ SumOf(shape.points, 2) % Len(shape.points) = 0

ShapeLists ==
    UNION { [1..n -> ShapePool] : n \in 0..MaxSvgShapes }

\* an optional entry of the options bag
Opt(key, given, value) == IF given THEN key :> value ELSE EmptyKwargs

\* the options bags Diagram.render hands over: the diagram's entries
\* (base.py:51-56) and the caller's show_rulers and margins
SvgKwargs ==
    { Merge([ width |-> d[1], height |-> d[2], explicit_dimensions |-> e,
              width_provided |-> e, height_provided |-> e ],
            Opt("show_rulers", g[1], TRUE) @@ Opt("margin", g[2], 20)
              @@ Opt("margin_top", g[3], 3) @@ Opt("margin_bottom", g[4], 9)
              @@ Opt("margin_left", g[5], 5) @@ Opt("margin_right", g[6], 7)) :
        d \in DimPairs, e \in BOOLEAN, g \in [1..6 -> BOOLEAN] }

InitSVG ==
    /\ DiagramInit(FALSE, FALSE, DefaultWidth, DefaultHeight, "px")
    /\ pc = "ready"
    /\ svg_shapes \in ShapeLists
    /\ \A i \in 1..Len(svg_shapes) : DivExact(svg_shapes[i])
    /\ svg_kwargs \in SvgKwargs
    /\ svg = << >>
    /\ PngIdle
    /\ CallIdle

SvgRender ==
    /\ pc = "ready"
    /\ svg' = SVGBackend_render(svg_shapes, svg_kwargs)
    /\ pc' = "done"
    /\ UNCHANGED << svg_shapes, svg_kwargs, png >>
    /\ UNCHANGED << diagram_vars, call_vars >>

NextSVG == SvgRender

SpecSVG == InitSVG /\ [][NextSVG]_vars

-----------------------------------------------------------------------------
(* Claims about the Diagram container, checked under Spec *)

KnownBackendNames == {"svg", "png", "drawio"}

\* the backend class a backend name stands for
ClassOfName(name) ==
    CASE name = "svg" -> "SVGBackend"
      [] name = "png" -> "PNGBackend"
      [] name = "drawio" -> "DrawIOBackend"
      [] OTHER -> None

\* the backend class the extension of a path stands for, None when it has none
ClassOfExtension(path) ==
    IF endswith(path, << ".", "s", "v", "g" >>) THEN "SVGBackend"
    ELSE IF endswith(path, << ".", "p", "n", "g" >>) THEN "PNGBackend"
    ELSE IF endswith(path, << ".", "d", "r", "a", "w", "i", "o" >>)
    THEN "DrawIOBackend"
    ELSE None

\* C1: render selects the backend by strict precedence: the explicit backend
\* argument, then the extension of the output path, then the backend bound
\* before the call, then SVG; so render(path of format G, backend = F) is
\* performed by the F backend.
C1_BackendPrecedence ==
    (last.op = "render" /\ last.backend \in KnownBackendNames \cup {None}) =>
        last.rendered_by.cls =
            IF last.backend # None THEN ClassOfName(last.backend)
            ELSE IF ClassOfExtension(last.output_path) # None
            THEN ClassOfExtension(last.output_path)
            ELSE IF last.before # NoBackend THEN last.before.cls
            ELSE "SVGBackend"

\* C2: render with a backend name that is not svg, png or drawio fails with
\* an unsupported-backend error: no backend's render is invoked and the bound
\* backend is left as it was before the call.
C2_UnknownBackendRaises ==
    (last.op = "render" /\ last.backend \notin KnownBackendNames \cup {None}) =>
        /\ last.raised = "UnsupportedBackend"
        /\ last.rendered_by = NoBackend
        /\ _backend = last.before

\* C3: after any sequence of add_shape calls, diagram.shapes is exactly the
\* sequence of the arguments in call order (one element per call, nothing
\* reordered, removed or deduplicated), whatever other calls come between.
C3_ShapesAreArgumentsInOrder ==
    /\ shapes = added
    /\ Len(shapes) = Len(added)

\* the same shape was added twice, and a render came after
C3_Witness ==
    /\ Len(added) = 2
    /\ added[1] = added[2]
    /\ last.op = "render"

\* C4: every render call hands the backend exactly the shapes added so far,
\* in insertion order, and leaves the shape list, width, height, units and
\* the explicit-dimensions flag unchanged.
C4_RenderHandsShapesAndKeepsDiagram ==
    [][ last'.op = "render" =>
          /\ last'.shapes = added
          /\ shapes' = shapes
          /\ width' = width
          /\ height' = height
          /\ units' = units
          /\ _explicit_dimensions' = _explicit_dimensions ]_vars

\* a render of two different shapes on a diagram that was rendered before
C4_Witness ==
    /\ last.op = "render"
    /\ last.before.inst = "render"
    /\ Len(last.shapes) = 2
    /\ last.shapes[1] # last.shapes[2]

\* both dimensions were given to the constructor, or set_dimensions was called
DeclaredExplicit == (_width_provided /\ _height_provided) \/ dims_set

\* C5 as stated: the explicit_dimensions option render passes to the backend
\* is true exactly when both width and height were given to the constructor
\* or set_dimensions has been called.
C5_ExplicitIffDeclared ==
    last.op = "render" =>
        (last.kwargs.explicit_dimensions = TRUE <=> DeclaredExplicit)

\* C5 as amended: an explicit_dimensions entry among the caller's own render
\* options overrides the diagram's flag; without one the option is true
\* exactly when both width and height were given to the constructor (0
\* counts) or set_dimensions has been called; the diagram's flag, once true,
\* is never reset.
C5_ExplicitIffDeclaredUnlessOverridden ==
    /\ [](last.op = "render" =>
            last.kwargs.explicit_dimensions =
                IF "explicit_dimensions" \in DOMAIN last.caller_kwargs
                THEN last.caller_kwargs.explicit_dimensions
                ELSE DeclaredExplicit)
    /\ [][_explicit_dimensions => _explicit_dimensions']_vars

\* a diagram built with width = 0 and height = 0 rendered as explicit, and
\* the same diagram rendered with the caller's override
C5_Witness ==
    /\ last.op = "render"
    /\ width = 0 /\ height = 0 /\ ~dims_set
    /\ _explicit_dimensions
    /\ "explicit_dimensions" \in DOMAIN last.caller_kwargs
    /\ last.kwargs.explicit_dimensions = FALSE

-----------------------------------------------------------------------------
(* Claims about the SVG backend's canvas, checked under SpecSVG *)

\* the options as the claims name them
Explicit == svg_kwargs.explicit_dimensions
Ruler == IF "show_rulers" \in DOMAIN svg_kwargs /\ svg_kwargs.show_rulers
         THEN 30 ELSE 0
MarginOf(side) ==
    IF side \in DOMAIN svg_kwargs THEN svg_kwargs[side]
    ELSE IF "margin" \in DOMAIN svg_kwargs THEN svg_kwargs.margin
    ELSE 0

SetMin(S) == CHOOSE m \in S : \A n \in S : m <= n
SetMax(S) == CHOOSE m \in S : \A n \in S : m >= n

Unrotated(list) == \A i \in 1..Len(list) : list[i].rotation = 0

\* the x (k = 1) or y (k = 2) coordinates an unrotated shape reaches: the
\* two sides of its bounding box, or the two endpoints of a line
Reach(shape, k) ==
    IF shape.cls = "Line"
    THEN IF k = 1 THEN {shape.x0, shape.x1} ELSE {shape.y0, shape.y1}
    ELSE IF k = 1 THEN {shape.x, shape.x + shape.width}
                  ELSE {shape.y, shape.y + shape.height}

ReachOfAll(list, k) == UNION { Reach(list[i], k) : i \in 1..Len(list) }

\* the shape's own vertices
Vertices(shape) ==
    CASE shape.cls = "Triangle" -> get_points(shape)
      [] shape.cls = "Polygon" -> shape.points
      [] shape.cls = "Line" ->
            << << shape.x0, shape.y0 >>, << shape.x1, shape.y1 >> >>
      [] OTHER ->
            << << shape.x, shape.y >>,
               << shape.x + shape.width, shape.y >>,
               << shape.x + shape.width, shape.y + shape.height >>,
               << shape.x, shape.y + shape.height >> >>

\* the x or y coordinates of the shape's vertices as drawn: turned by the
\* shape's rotation about the centre its rotate transform names
DrawnReach(shape, k) ==
    LET t == _get_transform(shape)
        v == Vertices(shape)
    IN  IF t = << >>
        THEN { v[i][k] : i \in 1..Len(v) }
        ELSE { Rotated(v[i], t[2], t[3], t[1])[k] : i \in 1..Len(v) }

DrawnReachOfAll(list, k) ==
    UNION { DrawnReach(list[i], k) : i \in 1..Len(list) }

\* no Polygon of the list is rotated
NoRotatedPolygon(list) ==
    \A i \in 1..Len(list) :
        list[i].cls = "Polygon" => list[i].rotation = 0

\* C6 as stated: with both width W and height H declared the margins are
\* added outside the W x H content area: the svg width is
\* ruler + margin_left + W + margin_right and the height is
\* ruler + margin_top + H + margin_bottom.
C6_ExplicitCanvasAddsMargins ==
    (pc = "done" /\ Explicit) =>
        /\ svg.canvas_width =
              Ruler + MarginOf("margin_left") + svg_kwargs.width
                    + MarginOf("margin_right")
        /\ svg.canvas_height =
              Ruler + MarginOf("margin_top") + svg_kwargs.height
                    + MarginOf("margin_bottom")

\* C6 as amended: with both width W and height H declared the content area
\* is exactly W x H and the margins are not added to the canvas: the svg
\* width is ruler + W and the height is ruler + H, whatever the margins.
C6_ExplicitCanvasIsDeclaredSize ==
    (pc = "done" /\ Explicit) =>
        /\ svg.content_width = svg_kwargs.width
        /\ svg.content_height = svg_kwargs.height
        /\ svg.canvas_width = Ruler + svg_kwargs.width
        /\ svg.canvas_height = Ruler + svg_kwargs.height

\* a declared 300 x 200 canvas rendered with rulers and non-zero margins
C6_Witness ==
    /\ pc = "done" /\ Explicit
    /\ svg_kwargs.width = 300 /\ svg_kwargs.height = 200
    /\ Ruler = 30
    /\ MarginOf("margin_left") = 5 /\ MarginOf("margin_right") = 20
    /\ MarginOf("margin_top") = 20 /\ MarginOf("margin_bottom") = 9
    /\ svg.canvas_width = 330 /\ svg.canvas_height = 230

\* C7: in auto-fit mode with a non-empty list of unrotated shapes the canvas
\* width is (max_x - min_x) + margin_left + margin_right + ruler and the
\* height (max_y - min_y) + margin_top + margin_bottom + ruler, over the
\* bounding box of all shapes, each margin defaulting to margin.
C7_AutoFitCanvas ==
    (pc = "done" /\ ~Explicit /\ svg_shapes # << >> /\ Unrotated(svg_shapes)) =>
        /\ svg.canvas_width =
              (SetMax(ReachOfAll(svg_shapes, 1))
                 - SetMin(ReachOfAll(svg_shapes, 1)))
              + MarginOf("margin_left") + MarginOf("margin_right") + Ruler
        /\ svg.canvas_height =
              (SetMax(ReachOfAll(svg_shapes, 2))
                 - SetMin(ReachOfAll(svg_shapes, 2)))
              + MarginOf("margin_top") + MarginOf("margin_bottom") + Ruler

\* a circle and a line in auto-fit mode with rulers, margin = 20 for the
\* sides that are not given and margin_left = 5
C7_Witness ==
    /\ pc = "done" /\ ~Explicit
    /\ svg_shapes = << Circle(5, 5, 10), Line(3, 70, 90, 4) >>
    /\ Ruler = 30
    /\ MarginOf("margin_left") = 5 /\ MarginOf("margin_right") = 20
    /\ MarginOf("margin_top") = 20 /\ MarginOf("margin_bottom") = 20
    /\ svg.canvas_width = 87 + 5 + 20 + 30
    /\ svg.canvas_height = 66 + 20 + 20 + 30

\* C8: in auto-fit mode the translation of the shape group moves the minimum
\* corner of the content bounding box to (ruler + margin_left,
\* ruler + margin_top), for every shape list: for the box the backend
\* computed, and for the box of the shapes as drawn whenever the backend's
\* box is that box (no rotated Polygon in the list).
C8_TranslationToMargins ==
    (pc = "done" /\ ~Explicit) =>
        /\ svg.min_x + svg.shape_offset_x = Ruler + MarginOf("margin_left")
        /\ svg.min_y + svg.shape_offset_y = Ruler + MarginOf("margin_top")
        /\ (svg_shapes # << >> /\ NoRotatedPolygon(svg_shapes)) =>
              /\ SetMin(DrawnReachOfAll(svg_shapes, 1)) + svg.shape_offset_x
                    = Ruler + MarginOf("margin_left")
              /\ SetMin(DrawnReachOfAll(svg_shapes, 2)) + svg.shape_offset_y
                    = Ruler + MarginOf("margin_top")

\* a rotated rectangle and a line whose box minimum is (3, -10), with rulers
\* and margins
C8_Witness ==
    /\ pc = "done" /\ ~Explicit
    /\ svg_shapes = << Rectangle(0, 0, 40, 20, 90), Line(3, 70, 90, 4) >>
    /\ Ruler = 30
    /\ MarginOf("margin_left") = 5 /\ MarginOf("margin_top") = 3
    /\ svg.min_x = 3 /\ svg.min_y = -10
    /\ svg.shape_offset_x = 32 /\ svg.shape_offset_y = 43

\* the one rectangle of C9, auto-fit, no rulers
C9_Case(margins) ==
    /\ pc = "done" /\ ~Explicit /\ Ruler = 0
    /\ svg_shapes = << Rectangle(10, 10, 100, 50, 0) >>
    /\ \A side \in {"margin_left", "margin_right", "margin_top",
                    "margin_bottom"} : MarginOf(side) = margins

C9_Box ==
    C9_Case(0) =>
        /\ svg.min_x = 10 /\ svg.min_y = 10
        /\ svg.max_x = 110 /\ svg.max_y = 60

\* the output coordinates of the rectangle's top-left corner: its x and y
\* attributes moved by the translation of the group
C9_CornerAt(x, y) ==
    C9_Case(20) =>
        /\ svg_shapes[1].x + svg.shape_offset_x = x
        /\ svg_shapes[1].y + svg.shape_offset_y = y

\* C9 as stated: one unrotated Rectangle at (10, 10) of 100 x 50, auto-fit,
\* no rulers: without margins the box is (10,10)-(110,60); with margin = 20
\* the final content area is 140 x 80 and the corner lands at (30, 30).
C9_RectangleExample ==
    /\ C9_Box
    /\ C9_Case(20) => (svg.content_width = 140 /\ svg.content_height = 80)
    /\ C9_CornerAt(30, 30)

\* C9 as amended: without margins the box is (10,10)-(110,60); with
\* margin = 20 the final content area is 140 x 90 (50 + 20 + 20) and the
\* rectangle's top-left corner lands at (20, 20), the box minimum moved to
\* (margin_left, margin_top).
C9_RectangleExampleAmended ==
    /\ C9_Box
    /\ C9_Case(20) => (svg.content_width = 140 /\ svg.content_height = 90)
    /\ C9_CornerAt(20, 20)

\* the rectangle rendered with margin = 20 on all four sides
C9_Witness == C9_Case(20) /\ svg.canvas_width = 140

\* C10: in auto-fit mode the bounding box of a rotated shape is the min/max
\* over its own vertices after turning each about the shape's bounding-box
\* centre, the centre of the emitted rotate transform.
C10_RotatedBoxAboutTransformCentre ==
    (pc = "done" /\ ~Explicit /\ Len(svg_shapes) = 1
       /\ svg_shapes[1].rotation # 0) =>
        /\ svg.min_x = SetMin(DrawnReach(svg_shapes[1], 1))
        /\ svg.max_x = SetMax(DrawnReach(svg_shapes[1], 1))
        /\ svg.min_y = SetMin(DrawnReach(svg_shapes[1], 2))
        /\ svg.max_y = SetMax(DrawnReach(svg_shapes[1], 2))

-----------------------------------------------------------------------------
-----------------------------------------------------------------------------
(* PNG backend (od_draw/diagram/backends/png.py)                           *)

\* the width and height PNGBackend.render assumes when the options bag has
\* none
PngDefaultWidth == 800
PngDefaultHeight == 600

\* PNGBackend.render(shapes, output_path, **kwargs): the size of the image
\* it creates and the offset it hands to _draw_shape for every shape
PNGBackend_render(list, kwargs) ==
    LET w == Get(kwargs, "width", PngDefaultWidth)
        h == Get(kwargs, "height", PngDefaultHeight)
        margin == Get(kwargs, "margin", 0)
        margin_top == Get(kwargs, "margin_top", margin)
        margin_bottom == Get(kwargs, "margin_bottom", margin)
        margin_left == Get(kwargs, "margin_left", margin)
        margin_right == Get(kwargs, "margin_right", margin)
    IN  [ canvas_width |-> w + margin_left + margin_right,
          canvas_height |-> h + margin_top + margin_bottom,
          offset_x |-> margin_left,
          offset_y |-> margin_top,
          drawn |-> list ]

(* SpecPNG: the SVG and the PNG backend each render the same arguments     *)

InitPNG == InitSVG

PngRender ==
    /\ pc \in {"ready", "done"}
    /\ png = << >>
    /\ png' = PNGBackend_render(svg_shapes, svg_kwargs)
    /\ UNCHANGED << svg_vars, diagram_vars, call_vars >>

NextPNG == SvgRender \/ PngRender

SpecPNG == InitPNG /\ [][NextPNG]_vars

\* both backends have rendered
BothRendered == pc = "done" /\ png # << >>

\* C11: for every shape list and every options bag the PNG image's width and
\* height equal the SVG canvas width and height, and the offset the PNG
\* backend adds to shape coordinates equals the SVG group translation.
C11_PngCanvasIsSvgCanvas ==
    BothRendered =>
        /\ png.canvas_width = svg.canvas_width
        /\ png.canvas_height = svg.canvas_height
        /\ png.offset_x = svg.shape_offset_x
        /\ png.offset_y = svg.shape_offset_y

-----------------------------------------------------------------------------
-----------------------------------------------------------------------------
(* Calls that return or raise *)

\* an exception of the given type carrying the given message
Error(type, msg) == [ type |-> type, msg |-> msg ]

\* the outcome of a call: the value it returned, or the exception it raised
\* (and then no value)
Returned(value) == [ raised |-> FALSE, value |-> value ]
Raised(type, msg) == [ raised |-> TRUE, error |-> Error(type, msg) ]

-----------------------------------------------------------------------------
(* Shape constructors (od_draw/shapes/base.py, od_draw/shapes/polygon.py)  *)

\* most points a point list handed to a Polygon constructor holds
MaxPoints == 3

\* Polygon.__init__ of shapes/base.py: only the empty list is refused
Polygon_init(points, rotation) ==
    IF points = << >>
    THEN Raised("ValueError", "Polygon must have at least one point")
    ELSE Returned(Polygon(points, rotation))

\* od_draw.Polygon: shapes/__init__.py imports Polygon from .base, and
\* od_draw/__init__.py imports it from .shapes
od_draw_Polygon(points, rotation) == Polygon_init(points, rotation)

\* Polygon.__init__ of shapes/polygon.py, a class no package exports
polygon_Polygon(cls, points, rotation) ==
    IF points = << >> \/ Len(points) < 3
    THEN Raised("ValueError", "Polygon must have at least 3 points")
    ELSE Returned([ Polygon(points, rotation) EXCEPT !.cls = cls ])

\* Triangle.__init__ of shapes/polygon.py
polygon_Triangle(x, y, w, h, rotation) ==
    polygon_Polygon("polygon.Triangle",
                    << << x + Div(w, 2), y >>,
                       << x, y + h >>,
                       << x + w, y + h >> >>, rotation)

\* Rectangle.__init__ of shapes/polygon.py
polygon_Rectangle(x, y, w, h, rotation) ==
    polygon_Polygon("polygon.Rectangle",
                    << << x, y >>,
                       << x + w, y >>,
                       << x + w, y + h >>,
                       << x, y + h >> >>, rotation)

(* SpecShapes: one constructor call on arguments drawn from bounded sets   *)

PointGrid == { << 0, 0 >>, << 12, 0 >>, << 0, 12 >>, << 12, 12 >>, << 6, 6 >> }

PointLists == UNION { [1..n -> PointGrid] : n \in 0..MaxPoints }

\* position and size arguments; widths are even, so width / 2 is whole
BoxArgs == { << x, y, w, h >> : x \in {-10, 10}, y \in {0, 10},
                                w \in {0, 40, 100}, h \in {0, 50} }

ShapeCalls ==
    { [ op |-> "od_draw.Polygon", points |-> pts, rotation |-> 0 ] :
        pts \in PointLists }
    \cup { [ op |-> "polygon.Polygon", points |-> pts, rotation |-> 0 ] :
        pts \in PointLists }
    \cup { [ op |-> o, x |-> b[1], y |-> b[2], width |-> b[3],
             height |-> b[4], rotation |-> r ] :
        o \in {"Rectangle", "Triangle", "polygon.Rectangle",
               "polygon.Triangle"},
        b \in BoxArgs, r \in {0, 90} }

InitShapes ==
    /\ DiagramInit(FALSE, FALSE, DefaultWidth, DefaultHeight, "px")
    /\ SvgIdle
    /\ PngIdle
    /\ call \in ShapeCalls
    /\ result = << >>

\* what a constructor leaves alone
Constructed == UNCHANGED << call, diagram_vars, svg_vars, png >>

NewPolygon ==
    /\ call.op = "od_draw.Polygon" /\ result = << >>
    /\ result' = od_draw_Polygon(call.points, call.rotation)
    /\ Constructed

NewPolygonPyPolygon ==
    /\ call.op = "polygon.Polygon" /\ result = << >>
    /\ result' = polygon_Polygon("polygon.Polygon", call.points,
                                 call.rotation)
    /\ Constructed

NewRectangle ==
    /\ call.op = "Rectangle" /\ result = << >>
    /\ result' = Returned(Rectangle(call.x, call.y, call.width, call.height,
                                    call.rotation))
    /\ Constructed

NewTriangle ==
    /\ call.op = "Triangle" /\ result = << >>
    /\ result' = Returned(Triangle(call.x, call.y, call.width, call.height,
                                   call.rotation))
    /\ Constructed

NewPolygonPyRectangle ==
    /\ call.op = "polygon.Rectangle" /\ result = << >>
    /\ result' = polygon_Rectangle(call.x, call.y, call.width, call.height,
                                   call.rotation)
    /\ Constructed

NewPolygonPyTriangle ==
    /\ call.op = "polygon.Triangle" /\ result = << >>
    /\ result' = polygon_Triangle(call.x, call.y, call.width, call.height,
                                  call.rotation)
    /\ Constructed

NextShapes ==
    \/ NewPolygon \/ NewPolygonPyPolygon
    \/ NewRectangle \/ NewTriangle
    \/ NewPolygonPyRectangle \/ NewPolygonPyTriangle

SpecShapes == InitShapes /\ [][NextShapes]_vars

\* C12: constructing od_draw.Polygon with a point list of length 0, 1 or 2
\* fails with an insufficient-points error, and no shape object results.
C12_ShortPolygonRaises ==
    (call # << >> /\ call.op = "od_draw.Polygon" /\ result # << >>
       /\ Len(call.points) < 3) =>
        /\ result.raised
        /\ result.error.type = "ValueError"

-----------------------------------------------------------------------------
-----------------------------------------------------------------------------
(* Colours (od_draw/colors.py)                                             *)
(* A string is a sequence of one-character strings.  A float is the exact  *)
(* fraction << numerator, denominator >> with a positive denominator, and  *)
(* an alpha argument that is None is the empty sequence.                   *)

NoAlpha == << >>
Frac(n, d) == << n, d >>
FracEq(a, b) == a[1] * b[2] = b[1] * a[2]

\* 0 <= alpha <= 1
InUnitInterval(a) == 0 <= a[1] /\ a[1] <= a[2]

\* alpha < 1.0
BelowOne(a) == a[1] < a[2]

HexDigitSeq ==
    << "0", "1", "2", "3", "4", "5", "6", "7",
       "8", "9", "A", "B", "C", "D", "E", "F" >>

IsHexDigit(c) == \E i \in 1..16 : HexDigitSeq[i] = c
HexVal(c) == (CHOOSE i \in 1..16 : HexDigitSeq[i] = c) - 1

\* str.upper, one character at a time
UpperChar(c) ==
    CASE c = "a" -> "A" [] c = "b" -> "B" [] c = "c" -> "C"
      [] c = "d" -> "D" [] c = "e" -> "E" [] c = "f" -> "F"
      [] c = "g" -> "G" [] OTHER -> c

upper(str) == [ i \in 1..Len(str) |-> UpperChar(str[i]) ]

\* int(s, 16) of a two-character string: two hex digits, or a sign and one
\* hex digit, or one hex digit beside a blank; anything else is a ValueError.
\* The result is << TRUE, value >> or << FALSE, 0 >>.
int16(str) ==
    CASE IsHexDigit(str[1]) /\ IsHexDigit(str[2]) ->
            << TRUE, 16 * HexVal(str[1]) + HexVal(str[2]) >>
      [] str[1] = "+" /\ IsHexDigit(str[2]) -> << TRUE, HexVal(str[2]) >>
      [] str[1] = "-" /\ IsHexDigit(str[2]) -> << TRUE, 0 - HexVal(str[2]) >>
      [] str[1] = " " /\ IsHexDigit(str[2]) -> << TRUE, HexVal(str[2]) >>
      [] IsHexDigit(str[1]) /\ str[2] = " " -> << TRUE, HexVal(str[1]) >>
      [] OTHER -> << FALSE, 0 >>

\* a slip in Color._hex_to_rgb: the green and blue slices are exchanged
_hex_to_rgb_swapped(hex) ==
    << int16(SubSeq(hex, 1, 2)), int16(SubSeq(hex, 5, 6)),
       int16(SubSeq(hex, 3, 4)) >>

\* Color._hex_to_rgb: the three int(..., 16) calls, in order
_hex_to_rgb(hex) ==
    << int16(SubSeq(hex, 1, 2)), int16(SubSeq(hex, 3, 4)),
       int16(SubSeq(hex, 5, 6)) >>

ColorValue(hex_color, rgb, alpha) ==
    [ hex_color |-> hex_color, rgb |-> rgb, alpha |-> alpha ]

InvalidLiteral == Raised("ValueError", "invalid literal for int() with base 16")

\* the range check that ends Color.__init__
CheckedColor(hex_color, rgb, alpha) ==
    IF InUnitInterval(alpha)
    THEN Returned(ColorValue(hex_color, rgb, alpha))
    ELSE Raised("ValueError", "Alpha must be between 0 and 1")

\* Color.__init__(hex_color, alpha)
Color(hex_color, alpha) ==
    LET up == upper(hex_color)
        hex_digits == IF up # << >> /\ Head(up) = "#" THEN Tail(up) ELSE up
    IN  IF Len(hex_digits) = 6
        THEN LET rgb == _hex_to_rgb(hex_digits)
             IN  IF \E i \in 1..3 : ~rgb[i][1]
                 THEN InvalidLiteral
                 ELSE CheckedColor(up, << rgb[1][2], rgb[2][2], rgb[3][2] >>,
                          IF alpha # NoAlpha THEN alpha ELSE Frac(1, 1))
        ELSE IF Len(hex_digits) = 8
        THEN LET rgb == _hex_to_rgb(SubSeq(hex_digits, 1, 6))
                 a == int16(SubSeq(hex_digits, 7, 8))
             IN  IF (\E i \in 1..3 : ~rgb[i][1]) \/ ~a[1]
                 THEN InvalidLiteral
                 ELSE CheckedColor(up, << rgb[1][2], rgb[2][2], rgb[3][2] >>,
                          IF alpha # NoAlpha THEN alpha ELSE Frac(a[2], 255))
        ELSE Raised("ValueError", "Invalid hex color. Must be 6 or 8 digits.")

RECURSIVE HexDigitsOf(_)
\* the hex digits of a positive number, most significant first
HexDigitsOf(n) ==
    IF n < 16 THEN << HexDigitSeq[n + 1] >>
    ELSE HexDigitsOf(n \div 16) \o << HexDigitSeq[(n % 16) + 1] >>

\* format(n, '02X'): at least two characters, the sign counted among them
Format02X(n) ==
    IF n < 0 THEN << "-" >> \o HexDigitsOf(0 - n)
    ELSE IF n < 16 THEN << "0" >> \o HexDigitsOf(n)
    ELSE HexDigitsOf(n)

\* Color.to_hex(include_alpha); int(alpha * 255) drops the fraction
to_hex(color, include_alpha) ==
    << "#" >> \o Format02X(color.rgb[1]) \o Format02X(color.rgb[2])
       \o Format02X(color.rgb[3])
       \o (IF include_alpha
           THEN Format02X((color.alpha[1] * 255) \div color.alpha[2])
           ELSE << >>)

\* Color.with_alpha(alpha)
with_alpha(color, alpha) == Color(to_hex(color, FALSE), alpha)

\* Python values handed to parse_color, by type
PyColor(color) == [ type |-> "Color", color |-> color ]
PyStr(str) == [ type |-> "str", str |-> str ]
\* a str held as one value (a name such as "dashed"), not character by character
PyText(text) == [ type |-> "str", text |-> text ]
PyTuple(items) == [ type |-> "tuple", items |-> items ]
PyList(items) == [ type |-> "list", items |-> items ]
PyInt(n) == [ type |-> "int", n |-> n ]
PyFloat(a) == [ type |-> "float", a |-> a ]
PyNone == [ type |-> "NoneType" ]

\* the alpha argument a Python value stands for
AsAlpha(v) == IF v.type = "float" THEN v.a ELSE NoAlpha

\* parse_color(color_input)
parse_color(color_input) ==
    IF color_input.type = "Color" THEN Returned(color_input.color)
    ELSE IF color_input.type = "str" THEN Color(color_input.str, NoAlpha)
    ELSE IF color_input.type = "tuple"
    THEN IF Len(color_input.items) # 2
         THEN Raised("ValueError", "wrong number of values to unpack")
         ELSE LET color_part == color_input.items[1]
                  alpha == AsAlpha(color_input.items[2])
              IN  IF color_part.type = "Color"
                  THEN with_alpha(color_part.color, alpha)
                  ELSE IF color_part.type = "str"
                  THEN Color(color_part.str, alpha)
                  ELSE Raised("AttributeError", "object has no attribute 'upper'")
    ELSE Raised("TypeError", "Invalid color input type")

(* SpecColor: one call of Color, Color.with_alpha or parse_color on        *)
(* arguments drawn from bounded sets                                       *)

\* two characters that int(..., 16) reads as one byte
BytePairs == { << "0", "0" >>, << "f", "F" >>, << "8", "0" >>, << "3", "c" >> }

\* strings of six and of eight hex digits, with and without the leading '#'
HexStrings ==
    LET six == { a \o b \o c : a \in BytePairs, b \in BytePairs,
                               c \in BytePairs }
        eight == { d \o a : d \in six, a \in BytePairs }
    IN  six \cup eight \cup { << "#" >> \o d : d \in six \cup eight }

\* strings that are not six or eight hex digits
OtherStrings ==
    { << >>,
      << "#" >>,
      << "#", "f", "f", "0" >>,
      << "f", "f", "0", "0", "0", "0", "0" >>,
      << "#", "#", "f", "f", "0", "0", "0" >>,
      << "#", "g", "g", "0", "0", "0", "0" >>,
      << "#", "+", "1", "+", "1", "+", "1" >>,
      << "-", "1", "-", "1", "-", "1" >>,
      << "#", "f", "f", "0", "0", " ", "f" >>,
      << "#", "f", "f", "0", "0", "0", "0", "+", "f" >>,
      << "#", "f", "f", "0", "0", "0", "0", "-", "1" >>,
      << "#", "f", "f", "0", "0", "0", "0", "0", "_" >> }

Alphas ==
    { NoAlpha, Frac(0, 1), Frac(1, 4), Frac(1, 1), Frac(3, 2), Frac(-1, 2) }

\* Color objects a client holds
Colors ==
    { Color(h, a).value :
        h \in { << "#", "f", "f", "0", "0", "0", "0" >>,
                << "3", "c", "8", "0", "f", "F", "8", "0" >>,
                << "-", "1", "-", "1", "-", "1" >> },
        a \in { NoAlpha, Frac(1, 4) } }

\* first elements of a tuple handed to parse_color
ColorParts ==
    { PyColor(c) : c \in Colors }
    \cup { PyStr(<< "#", "f", "f", "0", "0", "0", "0" >>),
           PyStr(<< "3", "c", "8", "0", "f", "F", "8", "0" >>),
           PyStr(<< "#", "f", "f", "0" >>),
           PyInt(5), PyNone,
           PyTuple(<< PyStr(<< "#", "f", "f", "0", "0", "0", "0" >>),
                      PyFloat(Frac(1, 4)) >>) }

ColorInputs ==
    { PyColor(c) : c \in Colors }
    \cup { PyStr(h) : h \in OtherStrings }
    \cup { PyStr(<< "#" >> \o a \o b \o c) :
             a \in BytePairs, b \in BytePairs, c \in BytePairs }
    \cup { PyStr(<< "3", "c", "8", "0", "f", "F", "8", "0" >>) }
    \cup { PyTuple(<< part, alpha >>) :
             part \in ColorParts,
             alpha \in { PyNone } \cup { PyFloat(a) : a \in Alphas \ {NoAlpha} } }
    \cup { PyTuple(<< >>) }
    \cup { PyTuple(<< part >>) : part \in ColorParts }
    \cup { PyTuple(<< part, PyFloat(Frac(1, 4)), PyFloat(Frac(1, 4)) >>) :
             part \in ColorParts }
    \cup { PyList(<< PyStr(<< "#", "f", "f", "0", "0", "0", "0" >>),
                     PyFloat(Frac(1, 4)) >>),
           PyInt(5), PyFloat(Frac(1, 4)), PyNone }

ColorCalls ==
    { [ op |-> "Color", hex_color |-> h, alpha |-> a ] :
        h \in HexStrings \cup OtherStrings, a \in Alphas }
    \cup { [ op |-> "with_alpha", self |-> c, alpha |-> a ] :
        c \in Colors, a \in Alphas }
    \cup { [ op |-> "parse_color", color_input |-> v ] : v \in ColorInputs }

InitColor ==
    /\ DiagramInit(FALSE, FALSE, DefaultWidth, DefaultHeight, "px")
    /\ SvgIdle
    /\ PngIdle
    /\ call \in ColorCalls
    /\ result = << >>

NewColor ==
    /\ call.op = "Color" /\ result = << >>
    /\ result' = Color(call.hex_color, call.alpha)
    /\ Constructed

WithAlpha ==
    /\ call.op = "with_alpha" /\ result = << >>
    /\ result' = with_alpha(call.self, call.alpha)
    /\ Constructed

ParseColor ==
    /\ call.op = "parse_color" /\ result = << >>
    /\ result' = parse_color(call.color_input)
    /\ Constructed

NextColor == NewColor \/ WithAlpha \/ ParseColor

SpecColor == InitColor /\ [][NextColor]_vars

\* the digits of a hex string: the string without its leading '#'
DigitsOf(hex) == IF hex # << >> /\ Head(hex) = "#" THEN Tail(hex) ELSE hex

\* the string has exactly 6 or 8 hex digits, in any letter case
SixOrEightHexDigits(hex) ==
    /\ Len(DigitsOf(hex)) \in {6, 8}
    /\ \A i \in 1..Len(DigitsOf(hex)) : IsHexDigit(UpperChar(DigitsOf(hex)[i]))

\* byte k of the digits (1 = red, 2 = green, 3 = blue, 4 = alpha)
ByteOf(hex, k) ==
    16 * HexVal(UpperChar(DigitsOf(hex)[2 * k - 1]))
      + HexVal(UpperChar(DigitsOf(hex)[2 * k]))

\* hex.upper() truncated to its colour digits: the alpha digits dropped
UpperColourDigits(hex) ==
    IF Len(DigitsOf(hex)) = 8
    THEN SubSeq(upper(hex), 1, Len(hex) - 2)
    ELSE upper(hex)

\* Color(hex, alpha) was called on 6 or 8 hex digits with an alpha that is
\* absent or within [0,1], and has finished
C14_Case ==
    /\ call.op = "Color" /\ result # << >>
    /\ SixOrEightHexDigits(call.hex_color)
    /\ (call.alpha = NoAlpha \/ InUnitInterval(call.alpha))

\* rgb is the first six digits read as three bytes, and alpha is the
\* explicit alpha when given, else the fourth byte / 255, else 1.0
C14_RgbAndAlpha ==
    /\ ~result.raised
    /\ result.value.rgb = << ByteOf(call.hex_color, 1),
                             ByteOf(call.hex_color, 2),
                             ByteOf(call.hex_color, 3) >>
    /\ IF call.alpha # NoAlpha
       THEN result.value.alpha = call.alpha
       ELSE IF Len(DigitsOf(call.hex_color)) = 8
       THEN FracEq(result.value.alpha, Frac(ByteOf(call.hex_color, 4), 255))
       ELSE FracEq(result.value.alpha, Frac(1, 1))

\* C14: for every hex string with exactly 6 or 8 hex digits (any letter
\* case), Color(hex, alpha) yields rgb equal to the first six digits read as
\* three bytes, to_hex(False) equal to hex.upper() truncated to its colour
\* digits, and alpha equal to the explicit alpha when one is given, otherwise
\* int(hex[6:8],16)/255 for 8 digits and 1.0 for 6 digits.
C14_ColorFromHex ==
    C14_Case =>
        /\ C14_RgbAndAlpha
        /\ to_hex(result.value, FALSE) = UpperColourDigits(call.hex_color)

\* C14 as amended: to_hex(False) is '#' followed by the six upper-cased
\* colour digits, whether or not the input carried the '#' (so it equals
\* hex.upper() truncated to its colour digits exactly when the input starts
\* with '#'); rgb and alpha as stated.
C14_ColorFromHexAmended ==
    C14_Case =>
        /\ C14_RgbAndAlpha
        /\ to_hex(result.value, FALSE)
             = << "#" >> \o SubSeq(upper(DigitsOf(call.hex_color)), 1, 6)
        /\ (Head(call.hex_color) = "#") <=>
             (to_hex(result.value, FALSE) = UpperColourDigits(call.hex_color))

\* eight lower- and upper-case digits without '#', and an explicit alpha
\* that overrides the embedded one
C14_Witness ==
    /\ C14_Case
    /\ Len(call.hex_color) = 8
    /\ upper(call.hex_color) # call.hex_color
    /\ call.alpha = Frac(1, 4)
    /\ ByteOf(call.hex_color, 4) = 128
    /\ ~result.raised

\* a Color came out of the call: the constructor, with_alpha or parse_color
\* returned one
YieldsColor == result # << >> /\ ~result.raised

\* C15: Color construction fails whenever the hex string does not have
\* exactly 6 or 8 hex digits or the resulting alpha lies outside [0,1];
\* every Color obtained from the constructor, from with_alpha or from
\* parse_color has alpha within [0,1]; with_alpha returns a new Color with
\* the same rgb (the original is an argument the call does not touch).
C15_InvalidColorsFail ==
    /\ (call.op = "Color" /\ result # << >>
          /\ ~SixOrEightHexDigits(call.hex_color)) => result.raised
    /\ (call.op = "Color" /\ result # << >> /\ call.alpha # NoAlpha
          /\ ~InUnitInterval(call.alpha)) => result.raised
    /\ YieldsColor => InUnitInterval(result.value.alpha)
    /\ (call.op = "with_alpha" /\ YieldsColor) =>
          /\ result.value.rgb = call.self.rgb
          /\ call.alpha # NoAlpha => result.value.alpha = call.alpha

\* the three accepted shapes of a colour input
IsColorInstance(v) == v.type = "Color"
IsHexString(v) == v.type = "str"
IsColorAlphaPair(v) ==
    /\ v.type = "tuple" /\ Len(v.items) = 2
    /\ v.items[1].type \in {"Color", "str"}
    /\ v.items[2].type \in {"float", "NoneType"}

\* C16: parse_color accepts exactly three input shapes and returns a Color
\* for each: a Color instance (returned as is), a hex string (alpha taken
\* from the string), and a 2-tuple of (Color or hex string, alpha) whose
\* result has the first element's rgb and the given alpha; every other
\* input, including a tuple that is not a (colour, alpha) pair, fails with
\* the invalid-colour-input-type error.
C16_ParseColorShapes ==
    (call.op = "parse_color" /\ result # << >>) =>
        LET v == call.color_input
        IN  /\ IsColorInstance(v) => result = Returned(v.color)
            /\ (IsHexString(v) /\ SixOrEightHexDigits(v.str)) =>
                  result = Color(v.str, NoAlpha) /\ ~result.raised
            /\ (IsColorAlphaPair(v) /\ v.items[2].type = "float"
                  /\ InUnitInterval(v.items[2].a)
                  /\ (v.items[1].type = "str"
                        => SixOrEightHexDigits(v.items[1].str))) =>
                  /\ ~result.raised
                  /\ result.value.alpha = v.items[2].a
                  /\ result.value.rgb =
                        IF v.items[1].type = "Color"
                        THEN v.items[1].color.rgb
                        ELSE Color(v.items[1].str, NoAlpha).value.rgb
            /\ ~(IsColorInstance(v) \/ IsHexString(v) \/ IsColorAlphaPair(v)) =>
                  result.raised /\ result.error.type = "TypeError"

-----------------------------------------------------------------------------
-----------------------------------------------------------------------------
(* Styled shapes (od_draw/shapes/base.py)                                  *)
(* A shape object is its geometry record (ShapeRecord) extended with the   *)
(* style fields Shape.__init__ and Line.__init__ store.                    *)

\* background_color = None
NoColor == [ none |-> TRUE ]

\* the truth value Python gives a background_color: None is false, a Color
\* object is true
Truthy(color) == color # NoColor

Black == Color(<< "#", "0", "0", "0", "0", "0", "0" >>, NoAlpha).value

\* (value,) * 4
FourOf(value) == << value, value, value, value >>

\* the truth value of a colour argument: None, '' and () are false
TruthyInput(v) ==
    CASE v.type = "NoneType" -> FALSE
      [] v.type = "str" -> v.str # << >>
      [] v.type = "tuple" -> v.items # << >>
      [] OTHER -> TRUE

\* Shape.__init__, border colour: one colour for the four sides, or four
Shape_border_color(border_color) ==
    IF border_color.type = "NoneType" THEN Returned(FourOf(Black))
    ELSE IF border_color.type # "tuple" \/ Len(border_color.items) # 4
    THEN LET c == IF TruthyInput(border_color) THEN parse_color(border_color)
                  ELSE Returned(Black)
         IN  IF c.raised THEN c ELSE Returned(FourOf(c.value))
    ELSE LET cs == [ i \in 1..4 |-> parse_color(border_color.items[i]) ]
         IN  IF \E i \in 1..4 : cs[i].raised
             THEN cs[CHOOSE i \in 1..4 :
                        cs[i].raised /\ \A j \in 1..(i - 1) : ~cs[j].raised]
             ELSE Returned([ i \in 1..4 |-> cs[i].value ])

\* Shape.__init__, background colour: None stays None
Shape_background_color(background_color) ==
    IF background_color.type = "NoneType" THEN Returned(NoColor)
    ELSE parse_color(background_color)

\* Shape.__init__, the style part: a number or a string stands for all four
\* sides, a tuple is stored as given
Shape_init(shape, border_thickness, border_style, border_color, background_color) ==
    LET bc == Shape_border_color(border_color)
        bg == Shape_background_color(background_color)
    IN  IF bc.raised THEN bc
        ELSE IF bg.raised THEN bg
        ELSE Returned(
            [ border_thickness |->
                  IF border_thickness.type = "tuple"
                  THEN border_thickness.items ELSE FourOf(border_thickness.n),
              border_style |->
                  IF border_style.type = "tuple"
                  THEN border_style.items ELSE FourOf(border_style.text),
              border_color |-> bc.value,
              background_color |-> bg.value ] @@ shape)

\* Line.__init__: the colour defaults to black
Line_init(line, thickness, color, style, left_end_style, right_end_style) ==
    LET c == IF TruthyInput(color) THEN parse_color(color)
             ELSE Returned(Black)
    IN  IF c.raised THEN c
        ELSE Returned(
            [ thickness |-> thickness, color |-> c.value, style |-> style,
              left_end_style |-> left_end_style,
              right_end_style |-> right_end_style ] @@ line)

-----------------------------------------------------------------------------
(* SVG elements (od_draw/diagram/backends/svg.py:267-434)                  *)
(* An element is a record of its tag and attributes.  An attribute that is *)
(* not emitted is Absent (fill), NoAlpha (the opacities), the empty string *)
(* (dash array, markers) or the empty sequence (transform, points).        *)

Absent == [ absent |-> TRUE ]

\* the paint value "none"
PaintNone == << "n", "o", "n", "e" >>

\* the text of a paint value: hex, followed by ";opacity:" and the alpha
\* when opacity is not NoAlpha
Paint(hex, opacity) == [ hex |-> hex, opacity |-> opacity ]

\* SVGBackend._color_to_svg
_color_to_svg(color) ==
    IF color = NoColor THEN Paint(PaintNone, NoAlpha)
    ELSE IF BelowOne(color.alpha)
    THEN Paint(to_hex(color, FALSE), color.alpha)
    ELSE Paint(to_hex(color, FALSE), NoAlpha)

\* SVGBackend._get_fill_opacity and _get_stroke_opacity: the value of the
\* attribute, NoAlpha when none is emitted
_get_fill_opacity(color) ==
    IF Truthy(color) /\ BelowOne(color.alpha) THEN color.alpha ELSE NoAlpha

_get_stroke_opacity(color) ==
    IF Truthy(color) /\ BelowOne(color.alpha) THEN color.alpha ELSE NoAlpha

\* the if / elif on a style that picks the dash array
DashArray(style) ==
    IF style = "dashed" THEN "5,5"
    ELSE IF style = "dotted" THEN "1,3"
    ELSE ""

\* the if / elif chains on an end style that pick the marker
Marker(end_style) ==
    IF end_style = "arrow-out" THEN "url(#arrow-out)"
    ELSE IF end_style = "arrow-in" THEN "url(#arrow-in)"
    ELSE IF end_style = "circle" THEN "url(#circle-marker)"
    ELSE IF end_style = "square" THEN "url(#square-marker)"
    ELSE ""

Element(tag, geom, points, fill, fill_opacity, stroke, stroke_width, stroke_opacity, stroke_dasharray, marker_start, marker_end, transform) ==
    [ tag |-> tag, geom |-> geom, points |-> points, fill |-> fill,
      fill_opacity |-> fill_opacity, stroke |-> stroke,
      stroke_width |-> stroke_width, stroke_opacity |-> stroke_opacity,
      stroke_dasharray |-> stroke_dasharray, marker_start |-> marker_start,
      marker_end |-> marker_end, transform |-> transform ]

\* a slip in the fill of an element: the colour converter is asked even
\* when there is no background colour and answers white for None
FillOfWhite(shape) ==
    IF Truthy(shape.background_color)
    THEN _color_to_svg(shape.background_color)
    ELSE Paint(<< "#", "F", "F", "F", "F", "F", "F" >>, NoAlpha)

\* fill = self._color_to_svg(bg) if bg else "none"
FillOf(shape) ==
    IF Truthy(shape.background_color)
    THEN _color_to_svg(shape.background_color)
    ELSE Paint(PaintNone, NoAlpha)

\* fill_opacity = self._get_fill_opacity(bg) if bg else ""
FillOpacityOf(shape) ==
    IF Truthy(shape.background_color)
    THEN _get_fill_opacity(shape.background_color)
    ELSE NoAlpha

\* a slip in _rectangle_to_svg: the stroke width is read from the left border
\* slot in place of the top one
_rectangle_to_svg_left_border(rect) ==
    Element("rect", << rect.x, rect.y, rect.width, rect.height >>, << >>,
            FillOf(rect), FillOpacityOf(rect),
            _color_to_svg(rect.border_color[1]), rect.border_thickness[4],
            _get_stroke_opacity(rect.border_color[1]),
            DashArray(rect.border_style[1]), "", "", _get_transform(rect))

\* SVGBackend._rectangle_to_svg
_rectangle_to_svg(rect) ==
    Element("rect", << rect.x, rect.y, rect.width, rect.height >>, << >>,
            FillOf(rect), FillOpacityOf(rect),
            _color_to_svg(rect.border_color[1]), rect.border_thickness[1],
            _get_stroke_opacity(rect.border_color[1]),
            DashArray(rect.border_style[1]), "", "", _get_transform(rect))

\* SVGBackend._circle_to_svg
_circle_to_svg(circle) ==
    Element("circle",
            << circle.x + circle.radius, circle.y + circle.radius,
               circle.radius >>, << >>,
            FillOf(circle), FillOpacityOf(circle),
            _color_to_svg(circle.border_color[1]),
            circle.border_thickness[1],
            _get_stroke_opacity(circle.border_color[1]),
            "", "", "", << >>)

\* SVGBackend._triangle_to_svg
_triangle_to_svg(triangle) ==
    Element("polygon", << >>, get_points(triangle),
            FillOf(triangle), FillOpacityOf(triangle),
            _color_to_svg(triangle.border_color[1]),
            triangle.border_thickness[1],
            _get_stroke_opacity(triangle.border_color[1]),
            "", "", "", _get_transform(triangle))

\* SVGBackend._polygon_to_svg
_polygon_to_svg(polygon) ==
    Element("polygon", << >>, polygon.points,
            FillOf(polygon), FillOpacityOf(polygon),
            _color_to_svg(polygon.border_color[1]),
            polygon.border_thickness[1],
            _get_stroke_opacity(polygon.border_color[1]),
            "", "", "", _get_transform(polygon))

\* SVGBackend._line_to_svg
_line_to_svg(line) ==
    Element("line", << line.x0, line.y0, line.x1, line.y1 >>, << >>,
            Absent, NoAlpha,
            _color_to_svg(line.color), line.thickness,
            _get_stroke_opacity(line.color),
            DashArray(line.style),
            Marker(line.left_end_style), Marker(line.right_end_style),
            << >>)

\* return "": the text of no element
NoElement == [ tag |-> "" ]

\* SVGBackend._shape_to_svg: the isinstance chain
_shape_to_svg(shape) ==
    IF shape.cls = "Line" THEN _line_to_svg(shape)
    ELSE IF shape.cls = "Circle" THEN _circle_to_svg(shape)
    ELSE IF shape.cls = "Triangle" THEN _triangle_to_svg(shape)
    ELSE IF shape.cls = "Polygon" THEN _polygon_to_svg(shape)
    ELSE IF shape.cls \in {"Rectangle", "Square"} THEN _rectangle_to_svg(shape)
    ELSE NoElement

(* SpecElement: SVGBackend._shape_to_svg on one styled shape               *)

Red == << "#", "f", "f", "0", "0", "0", "0" >>
Green == << "#", "0", "0", "f", "f", "0", "0" >>
Blue == << "0", "0", "0", "0", "F", "F" >>
HalfGreen == << "#", "0", "0", "f", "f", "0", "0", "8", "0" >>

BorderThicknesses == { PyInt(1), PyInt(3), PyTuple(<< 2, 1, 1, 1 >>) }

BorderStyles ==
    { PyText("solid"), PyText("dashed"), PyText("dotted"),
      PyTuple(<< "dotted", "solid", "dashed", "solid" >>) }

BorderColors ==
    { PyNone, PyStr(Red), PyTuple(<< PyStr(Red), PyFloat(Frac(1, 4)) >>),
      PyTuple(<< PyStr(Blue), PyStr(Red), PyStr(HalfGreen), PyStr(Green) >>) }

BackgroundColors ==
    { PyNone, PyStr(Green), PyStr(HalfGreen),
      PyTuple(<< PyStr(Blue), PyFloat(Frac(1, 4)) >>),
      PyColor(Color(Red, Frac(1, 1)).value) }

LineEndStyles == { "none", "arrow-out", "arrow-in", "circle", "square" }

\* the shape objects a client builds: every geometry of the pool under
\* every style (Circle.__init__ fixes the border style)
StyledShapes ==
    { Shape_init(g, t, s, c, b).value :
        g \in { p \in ShapePool : p.cls # "Line" /\ DivExact(p) },
        t \in BorderThicknesses, s \in BorderStyles, c \in BorderColors,
        b \in BackgroundColors }
    \ { o \in { Shape_init(g, t, s, c, b).value :
                  g \in { p \in ShapePool : p.cls = "Circle" },
                  t \in BorderThicknesses, s \in BorderStyles,
                  c \in BorderColors, b \in BackgroundColors } :
          o.border_style # FourOf("solid") }

StyledLines ==
    { Line_init(g, t, c, s, l, r).value :
        g \in { p \in ShapePool : p.cls = "Line" },
        t \in {1, 3},
        c \in { PyNone, PyStr(Red),
                PyTuple(<< PyStr(Red), PyFloat(Frac(1, 4)) >>) },
        s \in { "solid", "dashed", "dotted" },
        l \in LineEndStyles, r \in LineEndStyles }

ElementCalls ==
    { [ op |-> "_shape_to_svg", shape |-> o ] :
        o \in StyledShapes \cup StyledLines }

InitElement ==
    /\ DiagramInit(FALSE, FALSE, DefaultWidth, DefaultHeight, "px")
    /\ SvgIdle
    /\ PngIdle
    /\ call \in ElementCalls
    /\ result = << >>

ShapeToSvg ==
    /\ call.op = "_shape_to_svg" /\ result = << >>
    /\ result' = Returned(_shape_to_svg(call.shape))
    /\ Constructed

NextElement == ShapeToSvg

SpecElement == InitElement /\ [][NextElement]_vars

\* the SVG backend has emitted the element of a Rectangle, Square, Triangle,
\* Polygon or Circle whose background_color is None
C20_Case ==
    /\ call.op = "_shape_to_svg" /\ result # << >>
    /\ call.shape.cls \in {"Rectangle", "Square", "Triangle", "Polygon",
                           "Circle"}
    /\ call.shape.background_color = NoColor

\* C20: for every Rectangle, Square, Triangle, Polygon and Circle whose
\* background_color is None, the element the SVG backend emits carries
\* fill="none" and no fill-opacity attribute; no colour value is ever
\* emitted as its fill.
C20_NoBackgroundNoFill ==
    C20_Case =>
        /\ result.value.fill = Paint(PaintNone, NoAlpha)
        /\ result.value.fill_opacity = NoAlpha
        /\ Head(result.value.fill.hex) # "#"

\* a rotated Polygon without background whose border is translucent
C20_Witness ==
    /\ C20_Case
    /\ call.shape.cls = "Polygon" /\ call.shape.rotation # 0
    /\ result.value.stroke_opacity # NoAlpha
    /\ result.value.tag = "polygon"

-----------------------------------------------------------------------------
(* Vertex order (SpecShapes) *)

\* the shape object Rectangle(...) or Triangle(...) of the model's call,
\* with the default style
DefaultStyled(shape) ==
    Shape_init(shape, PyInt(1), PyText("solid"), PyNone, PyNone).value

\* a Rectangle or Triangle of either module was constructed
C13_Case(op) == call.op = op /\ result # << >> /\ ~result.raised

\* top-left, top-right, bottom-right, bottom-left of the call's box
C13_RectangleOrder ==
    << << call.x, call.y >>,
       << call.x + call.width, call.y >>,
       << call.x + call.width, call.y + call.height >>,
       << call.x, call.y + call.height >> >>

\* top centre, bottom-left, bottom-right of the call's box
C13_TriangleOrder ==
    << << call.x + call.width \div 2, call.y >>,
       << call.x, call.y + call.height >>,
       << call.x + call.width, call.y + call.height >> >>

\* C13: the derived vertex sequences are exactly, in this order: for a
\* Rectangle at (x,y) of size w x h, [(x,y),(x+w,y),(x+w,y+h),(x,y+h)]; for
\* a Triangle, get_points() returns [(x+w/2,y),(x,y+h),(x+w,y+h)]; the
\* backends consume the vertices in that order (the corners the SVG bounding
\* box turns, the points attribute of the SVG polygon element).
C13_VertexOrder ==
    /\ C13_Case("polygon.Rectangle") =>
          result.value.points = C13_RectangleOrder
    /\ C13_Case("Rectangle") =>
          corners(result.value) = C13_RectangleOrder
    /\ C13_Case("polygon.Triangle") =>
          result.value.points = C13_TriangleOrder
    /\ C13_Case("Triangle") =>
          /\ get_points(result.value) = C13_TriangleOrder
          /\ _triangle_to_svg(DefaultStyled(result.value)).points
                = C13_TriangleOrder

\* a rotated Triangle whose three vertices are distinct
C13_Witness ==
    /\ C13_Case("Triangle")
    /\ call.width > 0 /\ call.height > 0 /\ call.rotation # 0
    /\ Cardinality({ get_points(result.value)[i] : i \in 1..3 }) = 3

-----------------------------------------------------------------------------
-----------------------------------------------------------------------------
(* Draw.io object graph (od_draw/drawio) and backend                       *)
(* (od_draw/diagram/backends/drawio.py)                                    *)

\* longest shape list handed to the drawio backend
MaxDrawioShapes == 2

\* value is None
IsNone(v) == v.type = "NoneType"

\* value == ""
IsEmptyStr(v) ==
    /\ v.type = "str"
    /\ IF "text" \in DOMAIN v THEN v.text = ""
       ELSE IF "str" \in DOMAIN v THEN v.str = << >>
       ELSE FALSE

\* the truth value of a style attribute: None, "" and 0 are false
TruthyValue(v) ==
    ~IsNone(v) /\ ~IsEmptyStr(v) /\ ~(v.type = "int" /\ v.n = 0)

\* XMLBase(id=..., xml_class="mxCell", xml_parent=...): a placeholder node;
\* the parent is a sequence, empty when there is none
XMLBase(id, xml_parent) ==
    [ xml_class |-> "mxCell", id |-> id, xml_parent |-> xml_parent ]

\* Object.__init__(page, value, shape, **kwargs) on a fresh object whose
\* id() is addr
Object(addr, value, shape, kwargs) ==
    [ xml_class |-> "mxCell",
      id |-> addr,
      xml_parent |-> << 1 >>,
      value |-> value,
      shape |-> shape,
      geometry |-> [ x |-> Get(kwargs, "position", << 0, 0 >>)[1],
                     y |-> Get(kwargs, "position", << 0, 0 >>)[2],
                     width |-> Get(kwargs, "width", 120),
                     height |-> Get(kwargs, "height", 80) ],
      vertex |-> Get(kwargs, "vertex", 1),
      baseStyle |-> Get(kwargs, "baseStyle", PyNone),
      rounded |-> Get(kwargs, "rounded", PyInt(0)),
      whiteSpace |-> Get(kwargs, "whiteSpace", PyText("wrap")),
      fillColor |-> Get(kwargs, "fillColor", PyNone),
      strokeColor |-> Get(kwargs, "strokeColor", PyNone),
      strokeWidth |-> Get(kwargs, "strokeWidth", PyNone),
      polyCoords |-> Get(kwargs, "polyCoords", PyNone),
      rotation |-> Get(kwargs, "rotation", PyNone),
      dashed |-> Get(kwargs, "dashed", PyNone),
      dashPattern |-> Get(kwargs, "dashPattern", PyNone) ]

\* one entry of a style mapping
Item(attr, value) == << attr, value >>

\* style_dict[attr] = value when the condition holds
ItemIf(cond, attr, value) == IF cond THEN << Item(attr, value) >> ELSE << >>

\* the pieces of a style string: a bare value, an attr=value entry, a ';'
Bare(value) == [ kind |-> "bare", attr |-> "", value |-> value ]
Entry(attr, value) == [ kind |-> "entry", attr |-> attr, value |-> value ]
Semicolon == [ kind |-> ";", attr |-> "", value |-> PyNone ]

RECURSIVE join(_)
\* ";".join(style_str)
join(list) ==
    IF Len(list) <= 1 THEN list
    ELSE << Head(list), Semicolon >> \o join(Tail(list))

\* the entries of a mapping other than baseStyle, in insertion order
WithoutBaseStyle(style_dict) ==
    SelectSeq(style_dict, LAMBDA item : item[1] # "baseStyle")

\* a slip in style_str_from_dict: "if value" in place of
\* "if value not in ('', None)", which also drops a 0
style_str_from_dict_truthy(style_dict) ==
    LET base == SelectSeq(style_dict, LAMBDA item : item[1] = "baseStyle")
        rest == SelectSeq(WithoutBaseStyle(style_dict),
                          LAMBDA item : TruthyValue(item[2]))
    IN  join([ i \in 1..Len(base) |-> Bare(base[i][2]) ]
             \o [ i \in 1..Len(rest) |-> Entry(rest[i][1], rest[i][2]) ])

\* style_str_from_dict(style_dict)
style_str_from_dict(style_dict) ==
    LET base == SelectSeq(style_dict, LAMBDA item : item[1] = "baseStyle")
        rest == SelectSeq(WithoutBaseStyle(style_dict),
                          LAMBDA item : ~IsEmptyStr(item[2]) /\ ~IsNone(item[2]))
    IN  join([ i \in 1..Len(base) |-> Bare(base[i][2]) ]
             \o [ i \in 1..Len(rest) |-> Entry(rest[i][1], rest[i][2]) ])

\* the mapping Object.style builds, in the order of its assignments
style_dict_of(obj) ==
    ItemIf(TruthyValue(obj.baseStyle), "baseStyle", obj.baseStyle)
    \o ItemIf(obj.shape # "" /\ obj.shape # "rectangle", "shape",
              PyText(obj.shape))
    \o ItemIf(~IsNone(obj.rounded), "rounded", obj.rounded)
    \o ItemIf(~IsNone(obj.whiteSpace), "whiteSpace", obj.whiteSpace)
    \o ItemIf(~IsNone(obj.fillColor), "fillColor", obj.fillColor)
    \o ItemIf(~IsNone(obj.strokeColor), "strokeColor", obj.strokeColor)
    \o ItemIf(~IsNone(obj.strokeWidth), "strokeWidth", obj.strokeWidth)
    \o ItemIf(~IsNone(obj.polyCoords), "polyCoords", obj.polyCoords)
    \o ItemIf(~IsNone(obj.rotation), "rotation", obj.rotation)
    \o ItemIf(~IsNone(obj.dashed), "dashed", obj.dashed)
    \o ItemIf(~IsNone(obj.dashPattern), "dashPattern", obj.dashPattern)

\* Object.style
style(obj) == style_str_from_dict(style_dict_of(obj))

\* a slip in _normalize_polygon_points: both coordinates are divided by the
\* width of the box
_normalize_polygon_points_by_width(points, x, y, w, h) ==
    [ i \in 1..Len(points) |->
        << IF w > 0 THEN Frac(points[i][1] - x, w) ELSE Frac(0, 1),
           IF w > 0 THEN Frac(points[i][2] - y, w) ELSE Frac(0, 1) >> ]

\* DrawIOBackend._normalize_polygon_points: the list whose str() is the
\* polyCoords value; a quotient is the fraction << dividend, divisor >>
_normalize_polygon_points(points, x, y, w, h) ==
    [ i \in 1..Len(points) |->
        << IF w > 0 THEN Frac(points[i][1] - x, w) ELSE Frac(0, 1),
           IF h > 0 THEN Frac(points[i][2] - y, h) ELSE Frac(0, 1) >> ]

\* str(normalized)
PyCoords(normalized) == [ type |-> "str", coords |-> normalized ]

\* Page.__init__: the two placeholder nodes every page starts with
Page(name, page_num) ==
    [ name |-> name, page_num |-> page_num,
      objects |-> << XMLBase(0, << >>), XMLBase(1, << 0 >>) >> ]

\* Page.add_object: "not in" compares by identity, the object's id()
add_object(page, obj) ==
    IF \E i \in 1..Len(page.objects) : page.objects[i].id = obj.id
    THEN page
    ELSE [ page EXCEPT !.objects = Append(@, obj) ]

\* the shape type, position, size and polyCoords picked by the isinstance
\* chain of _add_shape_to_page
Placement(shape) ==
    IF shape.cls = "Circle"
    THEN [ shape_type |-> "ellipse", x |-> shape.x, y |-> shape.y,
           width |-> shape.width, height |-> shape.height,
           custom_style |-> EmptyKwargs ]
    ELSE IF shape.cls \in {"Triangle", "Polygon"}
    THEN LET points == IF shape.cls = "Triangle" THEN get_points(shape)
                       ELSE shape.points
             x == MinOf(points, 1)
             y == MinOf(points, 2)
             w == MaxOf(points, 1) - x
             h == MaxOf(points, 2) - y
         IN  [ shape_type |-> "mxgraph.basic.polygon", x |-> x, y |-> y,
               width |-> w, height |-> h,
               custom_style |->
                   "polyCoords" :>
                       PyCoords(_normalize_polygon_points(points, x, y, w, h)) ]
    ELSE IF shape.cls \in {"Rectangle", "Square"}
    THEN [ shape_type |-> "rectangle", x |-> shape.x, y |-> shape.y,
           width |-> shape.width, height |-> shape.height,
           custom_style |-> EmptyKwargs ]
    ELSE [ shape_type |-> "rectangle", x |-> 0, y |-> 0,
           width |-> 100, height |-> 100, custom_style |-> EmptyKwargs ]

\* the keyword arguments _add_shape_to_page hands to Object
ObjectKwargs(shape) ==
    LET place == Placement(shape)
        rotation == IF shape.rotation # 0
                    THEN "rotation" :> PyInt(shape.rotation) ELSE EmptyKwargs
        dash == IF shape.border_style[1] = "dashed"
                THEN "dashed" :> PyInt(1)
                ELSE IF shape.border_style[1] = "dotted"
                THEN "dashPattern" :> PyText("1 3") ELSE EmptyKwargs
        fill_color == IF Truthy(shape.background_color)
                      THEN PyStr(to_hex(shape.background_color, FALSE))
                      ELSE PyNone
        stroke_color == PyStr(to_hex(shape.border_color[1], FALSE))
        stroke_width == PyInt(shape.border_thickness[1])
    IN  Merge([ position |-> << place.x, place.y >>,
                width |-> place.width, height |-> place.height,
                fillColor |-> fill_color, strokeColor |-> stroke_color,
                strokeWidth |-> stroke_width ],
              place.custom_style @@ rotation @@ dash)

\* a slip in _add_shape_to_page: a Line is not skipped and falls to the
\* default rectangle
_add_shape_to_page_with_lines(page, shape, addr) ==
    IF shape.cls = "Line"
    THEN add_object(page, Object(addr, "", "rectangle", EmptyKwargs))
    ELSE add_object(page, Object(addr, "", Placement(shape).shape_type,
                                 ObjectKwargs(shape)))

\* DrawIOBackend._add_shape_to_page(page, shape): the page afterwards; addr
\* is the id() of the Object it creates
_add_shape_to_page(page, shape, addr) ==
    IF shape.cls = "Line" THEN page
    ELSE add_object(page, Object(addr, "", Placement(shape).shape_type,
                                 ObjectKwargs(shape)))

RECURSIVE AddShapes(_, _, _, _)
\* the loop of DrawIOBackend.render over shapes[k..]
AddShapes(page, list, addrs, k) ==
    IF k > Len(list) THEN page
    ELSE AddShapes(_add_shape_to_page(page, list[k], addrs[k]), list, addrs,
                   k + 1)

\* DrawIOBackend.render(shapes, output_path): the File it writes, one page
\* named after the number of pages of the file
DrawIOBackend_render(list, addrs) ==
    [ xml_class |-> "mxfile",
      pages |-> << AddShapes(Page("Page-1", 1), list, addrs, 1) >> ]

(* SpecDrawIO: one call of DrawIOBackend.render on a shape list, or one    *)
(* read of Object.style on an object built from keyword arguments          *)

\* the shape objects handed to the backend, degenerate boxes among them
DrawioShapeArgs ==
    << << Rectangle(10, 10, 100, 50, 0), PyInt(1), PyText("solid"),
          PyNone, PyNone >>,
       << Rectangle(0, 0, 40, 20, 90), PyInt(3), PyText("dashed"),
          PyStr(Red), PyStr(Green) >>,
       << Square(-10, 4, 20, 180), PyTuple(<< 2, 1, 1, 1 >>),
          PyTuple(<< "dotted", "solid", "dashed", "solid" >>),
          PyNone, PyTuple(<< PyStr(Blue), PyFloat(Frac(1, 4)) >>) >>,
       << Triangle(0, 0, 40, 20, 0), PyInt(1), PyText("solid"),
          PyNone, PyStr(HalfGreen) >>,
       << Triangle(50, 0, 40, 0, 90), PyInt(1), PyText("solid"),
          PyNone, PyNone >>,
       << Triangle(0, 8, -40, 20, 0), PyInt(1), PyText("solid"),
          PyNone, PyNone >>,
       << Polygon(RightTriangle, 0), PyInt(1), PyText("solid"),
          PyNone, PyNone >>,
       << Polygon(Diamond, 90), PyInt(1), PyText("dotted"),
          PyStr(Red), PyStr(Green) >>,
       << Polygon(<< << 3, 3 >> >>, 0), PyInt(1), PyText("solid"),
          PyNone, PyNone >>,
       << Polygon(<< << 0, 0 >>, << 0, 12 >> >>, 0), PyInt(1),
          PyText("solid"), PyNone, PyNone >>,
       << Polygon(<< << 4, 7 >>, << 16, 7 >>, << 8, 7 >> >>, 0), PyInt(1),
          PyText("solid"), PyNone, PyNone >>,
       << Circle(5, 5, 10), PyInt(1), PyText("solid"), PyNone, PyNone >> >>

DrawioLineArgs ==
    << << Line(3, 70, 90, 4), 1, PyNone, "solid", "none", "none" >>,
       << Line(0, 0, 5, 5), 3, PyStr(Red), "dashed", "arrow-in",
          "circle" >> >>

DrawioPool ==
    { Shape_init(DrawioShapeArgs[i][1], DrawioShapeArgs[i][2],
                 DrawioShapeArgs[i][3], DrawioShapeArgs[i][4],
                 DrawioShapeArgs[i][5]).value :
        i \in 1..Len(DrawioShapeArgs) }
    \cup { Line_init(DrawioLineArgs[i][1], DrawioLineArgs[i][2],
                     DrawioLineArgs[i][3], DrawioLineArgs[i][4],
                     DrawioLineArgs[i][5], DrawioLineArgs[i][6]).value :
             i \in 1..Len(DrawioLineArgs) }

DrawioLists == UNION { [1..n -> DrawioPool] : n \in 0..MaxDrawioShapes }

\* the values id() can give the objects of one render: distinct addresses
Addresses == 1001..(1001 + MaxDrawioShapes)

AddressMaps(n) ==
    { a \in [1..n -> Addresses] :
        \A i \in 1..n, j \in 1..n : i # j => a[i] # a[j] }

\* keyword arguments of Object(...), each given or left out
StyleKwargs ==
    { b @@ r @@ w @@ f @@ k @@ t @@ d :
        b \in { EmptyKwargs, "baseStyle" :> PyNone, "baseStyle" :> PyText(""),
                "baseStyle" :> PyText("text") },
        r \in { EmptyKwargs, "rounded" :> PyInt(1), "rounded" :> PyNone },
        w \in { EmptyKwargs, "whiteSpace" :> PyText(""),
                "whiteSpace" :> PyNone },
        f \in { EmptyKwargs, "fillColor" :> PyText(""),
                "fillColor" :> PyStr(to_hex(Black, FALSE)) },
        k \in { EmptyKwargs, "strokeWidth" :> PyInt(0),
                "strokeWidth" :> PyInt(2) },
        t \in { EmptyKwargs, "rotation" :> PyInt(90) },
        d \in { EmptyKwargs, "dashPattern" :> PyText("1 3") } }

DrawioCalls ==
    { [ op |-> "DrawIOBackend.render", shapes |-> list ] :
        list \in DrawioLists }
    \cup { [ op |-> "Object.style", obj |-> Object(a, "", sh, kw) ] :
             a \in {1001}, sh \in {"rectangle", "ellipse", ""},
             kw \in StyleKwargs }

InitDrawIO ==
    /\ DiagramInit(FALSE, FALSE, DefaultWidth, DefaultHeight, "px")
    /\ SvgIdle
    /\ PngIdle
    /\ call \in DrawioCalls
    /\ result = << >>

DrawIORender ==
    /\ call.op = "DrawIOBackend.render" /\ result = << >>
    /\ \E addrs \in AddressMaps(Len(call.shapes)) :
          result' = Returned(DrawIOBackend_render(call.shapes, addrs))
    /\ Constructed

ObjectStyle ==
    /\ call.op = "Object.style" /\ result = << >>
    /\ result' = Returned(style(call.obj))
    /\ Constructed

NextDrawIO == DrawIORender \/ ObjectStyle

SpecDrawIO == InitDrawIO /\ [][NextDrawIO]_vars

-----------------------------------------------------------------------------
(* Claims about the drawio backend, checked under SpecDrawIO *)

\* the render call has returned
Rendered == call.op = "DrawIOBackend.render" /\ result # << >>

\* the shapes of a list that are not lines, in list order
NonLines(list) == SelectSeq(list, LAMBDA s : s.cls # "Line")

\* the x (k = 1) or y (k = 2) coordinates of the corners of a shape
CornerCoords(shape, k) ==
    { Vertices(shape)[m][k] : m \in 1..Len(Vertices(shape)) }

\* the node is an object node standing for the shape: a vertex cell of layer
\* 1 placed on the shape's bounding box, stroked with its first border
StandsFor(node, shape) ==
    /\ node.xml_parent = << 1 >>
    /\ node.vertex = 1
    /\ node.geometry.x = SetMin(CornerCoords(shape, 1))
    /\ node.geometry.y = SetMin(CornerCoords(shape, 2))
    /\ node.geometry.width =
           SetMax(CornerCoords(shape, 1)) - SetMin(CornerCoords(shape, 1))
    /\ node.geometry.height =
           SetMax(CornerCoords(shape, 2)) - SetMin(CornerCoords(shape, 2))
    /\ node.strokeWidth = PyInt(shape.border_thickness[1])
    /\ node.strokeColor = PyStr(to_hex(shape.border_color[1], FALSE))

PolyCoordsOf(i) == result.value.pages[1].objects[2 + i].polyCoords.coords

\* coordinate k of normalised point c of a shape: never a division by zero,
\* (p - boxMin) / boxSize of the shape's bounding box, 0 when the box has no
\* extent in k, and within [0, 1]
NormalisedFrom(c, p, shape, k) ==
    LET boxMin == SetMin(CornerCoords(shape, k))
        boxSize == SetMax(CornerCoords(shape, k)) - boxMin
    IN  /\ c[2] > 0
        /\ IF boxSize = 0 THEN c = Frac(0, 1)
           ELSE FracEq(c, Frac(p - boxMin, boxSize))
        /\ InUnitInterval(c)

\* C18: for each Triangle and each Polygon of the shape list the object node
\* carries one normalised point per vertex, in vertex order; each coordinate
\* is (p - boxMin) / boxSize of the shape's own bounding box, is 0 when that
\* box dimension is 0, lies in [0, 1], and is never a division by zero
C18_NormalisedPoints ==
    Rendered /\ ~result.raised =>
        LET shown == NonLines(call.shapes)
        IN  \A i \in 1..Len(shown) :
                shown[i].cls \in {"Triangle", "Polygon"} =>
                    /\ Len(PolyCoordsOf(i)) = Len(Vertices(shown[i]))
                    /\ \A j \in 1..Len(Vertices(shown[i])), k \in {1, 2} :
                           NormalisedFrom(PolyCoordsOf(i)[j][k],
                                          Vertices(shown[i])[j][k],
                                          shown[i], k)

\* a triangle whose apex is normalised to 1/2 and a polygon whose box has no
\* width were rendered together
C18_Witness ==
    /\ Rendered
    /\ Len(call.shapes) = 2
    /\ call.shapes[1].cls = "Triangle"
    /\ call.shapes[2].cls = "Polygon"
    /\ call.shapes[2].width = 0
    /\ call.shapes[2].height > 0
    /\ FracEq(PolyCoordsOf(1)[1][1], Frac(1, 2))
    /\ PolyCoordsOf(2)[2] = << Frac(0, 1), Frac(12, 12) >>

(* Claims about Object.style, checked under SpecDrawIO *)

\* the style property has been read
StyleRead == call.op = "Object.style" /\ result # << >>

\* an entry of the style mapping that the style string keeps
Kept(item) ==
    item[1] # "baseStyle" /\ ~IsNone(item[2]) /\ ~IsEmptyStr(item[2])

\* the pieces of a style string between its semicolons
Pieces(tokens) == SelectSeq(tokens, LAMBDA t : t.kind # ";")

\* the positions of a style string that hold the entry of a mapping item
PositionsOf(pieces, item) ==
    { p \in 1..Len(pieces) : pieces[p] = Entry(item[1], item[2]) }

\* C19: the style string of an object is a list of pieces joined by ';';
\* the pieces are one key=value entry for exactly the keys of the style
\* mapping whose value is neither None nor the empty string, in the mapping's
\* insertion order, after the base style as a bare value when the mapping has
\* one; a key whose value is None or empty has no entry
C19_StyleString ==
    StyleRead =>
        LET mapping == style_dict_of(call.obj)
            tokens == result.value
            pieces == Pieces(result.value)
            based == \E m \in 1..Len(mapping) : mapping[m][1] = "baseStyle"
            first == IF based THEN 2 ELSE 1
        IN  /\ ~result.raised
            /\ Len(tokens) = IF Len(pieces) = 0 THEN 0 ELSE 2 * Len(pieces) - 1
            /\ \A i \in 1..Len(tokens) :
                   (tokens[i] = Semicolon) <=> (i % 2 = 0)
            /\ \A m \in 1..Len(mapping) :
                   /\ mapping[m][1] = "baseStyle" =>
                          pieces[1] = Bare(mapping[m][2])
                   /\ Kept(mapping[m]) =>
                          Cardinality(PositionsOf(pieces, mapping[m])) = 1
            /\ \A p \in first..Len(pieces) :
                   \E m \in 1..Len(mapping) :
                       Kept(mapping[m]) /\ p \in PositionsOf(pieces, mapping[m])
            /\ \A m \in 1..Len(mapping), n \in 1..Len(mapping) :
                   m < n /\ Kept(mapping[m]) /\ Kept(mapping[n]) =>
                       \A p \in PositionsOf(pieces, mapping[m]),
                          q \in PositionsOf(pieces, mapping[n]) : p < q
            /\ \A p \in 1..Len(pieces) :
                   ~IsNone(pieces[p].value) /\ ~IsEmptyStr(pieces[p].value)

\* a style was read from an object with a base style, the default rounded=0
\* and an empty whiteSpace: the string is "text;rounded=0"
C19_Witness ==
    /\ StyleRead
    /\ call.obj.baseStyle = PyText("text")
    /\ call.obj.whiteSpace = PyText("")
    /\ call.obj.shape = "rectangle"
    /\ result.value = << Bare(PyText("text")), Semicolon,
                         Entry("rounded", PyInt(0)) >>

-----------------------------------------------------------------------------
(* Claims about the dash pattern of SVG elements, checked under SpecElement *)

\* the SVG backend has emitted the element of a Rectangle, Square, Triangle,
\* Polygon or Line
C21_Case ==
    /\ call.op = "_shape_to_svg" /\ result # << >>
    /\ call.shape.cls \in {"Rectangle", "Square", "Triangle", "Polygon",
                           "Line"}

\* the style the claim reads: the line style, or the top border slot
C21_Style ==
    IF call.shape.cls = "Line" THEN call.shape.style
    ELSE call.shape.border_style[1]

\* C21: for every Rectangle, Square, Triangle, Polygon and Line the element
\* carries stroke-dasharray "5,5" when the style (top border slot, or line
\* style) is dashed, "1,3" when it is dotted, and no dash attribute when it
\* is solid.
C21_DashPattern ==
    C21_Case =>
        /\ C21_Style = "dashed" => result.value.stroke_dasharray = "5,5"
        /\ C21_Style = "dotted" => result.value.stroke_dasharray = "1,3"
        /\ C21_Style = "solid" => result.value.stroke_dasharray = ""

-----------------------------------------------------------------------------
(* SpecSlots: two shapes that differ at most in the right, bottom and left *)
(* border slots, each handed to SVGBackend._shape_to_svg and to            *)
(* DrawIOBackend.render                                                     *)

\* the geometries of the pair
SlotGeometries ==
    { Rectangle(10, 10, 100, 50, 0), Square(-10, 4, 20, 180),
      Triangle(0, 8, 40, 20, 90), Polygon(Diamond, 0) }

\* the values of slots 1 to 3 of border_thickness, border_style, border_color
ThicknessTails == { << 1, 1, 1 >>, << 3, 2, 5 >> }
StyleTails == { << "solid", "solid", "solid" >>,
                << "dashed", "dotted", "solid" >> }
ColorTails ==
    { << PyStr(Green), PyStr(Green), PyStr(Green) >>,
      << PyStr(Red), PyStr(HalfGreen), PyStr(Blue) >> }

\* the border arguments of one shape: a top slot and the three other slots
SlotTops ==
    [ thickness : {1, 3}, style : {"solid", "dashed", "dotted"},
      color : {PyStr(Red), PyStr(HalfGreen)} ]
SlotTails ==
    [ thickness : ThicknessTails, style : StyleTails, color : ColorTails ]

\* Shape(..., border_thickness=(t0, t1, t2, t3), border_style=(...),
\* border_color=(...), background_color=...)
SlotShape(g, top, tail, bg) ==
    Shape_init(g, PyTuple(<< top.thickness >> \o tail.thickness),
               PyTuple(<< top.style >> \o tail.style),
               PyTuple(<< top.color >> \o tail.color), bg).value

SlotCalls ==
    { [ op |-> "render both", geometry |-> g, top |-> top,
        tails |-> << ta, tb >>, background_color |-> bg ] :
        g \in SlotGeometries, top \in SlotTops, ta \in SlotTails,
        tb \in SlotTails, bg \in {PyNone, PyStr(Blue)} }

\* the two shape objects of a call
SlotShapes(c) ==
    [ i \in 1..2 |-> SlotShape(c.geometry, c.top, c.tails[i],
                               c.background_color) ]

InitSlots ==
    /\ DiagramInit(FALSE, FALSE, DefaultWidth, DefaultHeight, "px")
    /\ SvgIdle
    /\ PngIdle
    /\ call \in SlotCalls
    /\ result = << >>

\* the SVG element of each shape, and the style string of the object node a
\* drawio render of each shape alone puts on its page
RenderBoth ==
    /\ call.op = "render both" /\ result = << >>
    /\ result' =
         Returned([ i \in 1..2 |->
            [ svg |-> _shape_to_svg(SlotShapes(call)[i]),
              drawio |->
                  style(DrawIOBackend_render(<< SlotShapes(call)[i] >>,
                                             << 1001 >>).pages[1].objects[3])
            ] ])
    /\ Constructed

NextSlots == RenderBoth

SpecSlots == InitSlots /\ [][NextSlots]_vars

\* C22: two polygon-like shapes that are identical except for
\* border_thickness, border_style or border_color in slots 1 to 3 (right,
\* bottom, left) get identical SVG elements and identical drawio object
\* style strings: the output depends on a border only through slot 0.
C22_OnlyTopSlot ==
    call.op = "render both" /\ result # << >> =>
        /\ result.value[1].svg = result.value[2].svg
        /\ result.value[1].drawio = result.value[2].drawio

\* both shapes were rendered, they differ in every attribute of slots 1 to 3
\* and their shared top slot is dashed with a translucent colour
C22_Witness ==
    /\ call.op = "render both" /\ result # << >>
    /\ call.tails[1].thickness # call.tails[2].thickness
    /\ call.tails[1].style # call.tails[2].style
    /\ call.tails[1].color # call.tails[2].color
    /\ call.top.style = "dashed"
    /\ call.top.color = PyStr(HalfGreen)
    /\ call.geometry.cls = "Rectangle"
    /\ result.value[1].svg.stroke_dasharray = "5,5"
    /\ result.value[1].svg.stroke_opacity # NoAlpha

-----------------------------------------------------------------------------
-----------------------------------------------------------------------------
(* Diagram.show (base.py:62-74) and the show method of the backends        *)
(* (svg.py:162-172, png.py:47-68, drawio.py:49-70)                         *)

\* show() called without a backend argument: the parameter takes its default
Omitted == "(omitted)"

\* the default of the backend parameter of show (base.py:62)
ShowBackendParameter(backend) == IF backend = Omitted THEN "svg" ELSE backend

\* base.py:63-70: the if / elif chain of show
SelectBackendForShow(backend, bound) ==
    IF backend = "svg" THEN SVGBackend
    ELSE IF backend = "png" THEN PNGBackend
    ELSE IF backend = "drawio" THEN DrawIOBackend
    ELSE IF bound = NoBackend THEN SVGBackend
    ELSE bound

\* base.py:72
ShowKwargs(kwargs) == Merge([ width |-> width, height |-> height ], kwargs)

\* the call of a backend's show, about to render into its temporary file
BackendShow(backend, list, kwargs) ==
    [ op |-> "Backend.show", backend |-> backend, shapes |-> list,
      kwargs |-> kwargs, pc |-> "render", written |-> << >>,
      viewer |-> "not started", status |-> 0 ]

\* Diagram.show(backend, **kwargs) up to its call of self._backend.show
show(backend, kwargs) ==
    /\ _backend' = SelectBackendForShow(ShowBackendParameter(backend), _backend)
    /\ last' = [ op |-> "show", output_path |-> << >>, backend |-> backend,
                 before |-> _backend, rendered_by |-> _backend',
                 shapes |-> HandedShapes(shapes),
                 kwargs |-> ShowKwargs(kwargs),
                 caller_kwargs |-> kwargs, raised |-> None ]
    /\ call' = BackendShow(_backend', HandedShapes(shapes), ShowKwargs(kwargs))
    /\ result' = << >>
    /\ UNCHANGED << width, height, units, shapes, _explicit_dimensions,
                    _width_provided, _height_provided, added, dims_set,
                    installed >>

\* the size of the image a backend's show writes into the temporary file:
\* the SVG canvas of SVGBackend.render, the width x height image of
\* PNGBackend.show, nothing sized for drawio
Written(backend, list, kwargs) ==
    IF backend.cls = "SVGBackend"
    THEN << SVGBackend_render(list, kwargs).canvas_width,
            SVGBackend_render(list, kwargs).canvas_height >>
    ELSE IF backend.cls = "PNGBackend"
    THEN << Get(kwargs, "width", PngDefaultWidth),
            Get(kwargs, "height", PngDefaultHeight) >>
    ELSE << >>

\* no show is running: the client has control
ClientHasControl == call = << >>

Showing(stage) == IF call = << >> THEN FALSE ELSE call.pc = stage

(* SpecShow: a client's calls on one diagram, show among them.  A show runs *)
(* in steps: the temporary file is written, subprocess.run starts the      *)
(* viewer, the viewer exits at a time of its own, subprocess.run returns.  *)

\* the arguments of the render calls of SpecShow
ShowPaths == { Chars("svg"), Chars("txt") }
ShowBackendArgs == { Omitted, None, "svg", "png", "drawio" }

\* keyword arguments a client passes to show
ShowCallerKwargs == { EmptyKwargs, "explicit_dimensions" :> TRUE }

\* the exit statuses of a viewer
ExitStatuses == {0, 1}

ShowAddShape == ClientHasControl /\ AddShape

ShowSetDimensions == ClientHasControl /\ SetDimensions

ShowSetBackend == ClientHasControl /\ SetBackend

ShowThenRender ==
    /\ ClientHasControl
    /\ \E p \in ShowPaths, b \in {None, "png"} :
          render(p, b, EmptyKwargs) /\ UNCHANGED backend_vars

\* Diagram.show
Show ==
    /\ ClientHasControl
    /\ \E b \in ShowBackendArgs, k \in ShowCallerKwargs : show(b, k)
    /\ UNCHANGED << svg_vars, png >>

\* self.render(shapes, f.name, **kwargs) into the temporary file
ShowRender ==
    /\ Showing("render")
    /\ call' = [ call EXCEPT !.pc = "run",
                   !.written = Written(call.backend, call.shapes,
                                       call.kwargs) ]
    /\ UNCHANGED << diagram_vars, svg_vars, png, result >>

\* subprocess.run([viewer, path]) starts the viewer and waits for it
ViewerSpawn ==
    /\ Showing("run")
    /\ call' = [ call EXCEPT !.pc = "wait", !.viewer = "running" ]
    /\ UNCHANGED << diagram_vars, svg_vars, png, result >>

\* subprocess.run([viewer, path]) finds no such command
SpawnFails ==
    /\ Showing("run")
    /\ call' = << >>
    /\ result' = Raised("FileNotFoundError", "viewer")
    /\ UNCHANGED << diagram_vars, svg_vars, png >>

\* the viewer process exits; when it does is not up to the program
ViewerExit ==
    /\ Showing("wait") /\ call.viewer = "running"
    /\ \E s \in ExitStatuses :
          call' = [ call EXCEPT !.viewer = "exited", !.status = s ]
    /\ UNCHANGED << diagram_vars, svg_vars, png, result >>

\* subprocess.run returns once the viewer has exited (no check=True: the
\* status is dropped), and show returns None
ShowReturn ==
    /\ Showing("wait") /\ call.viewer = "exited"
    /\ call' = << >>
    /\ result' = Returned(PyNone)
    /\ UNCHANGED << diagram_vars, svg_vars, png >>

\* the steps the program takes by itself once show is called
ShowSteps == ShowRender \/ ViewerSpawn \/ ShowReturn

NextShow ==
    \/ ShowAddShape \/ ShowSetDimensions \/ ShowSetBackend \/ ShowThenRender
    \/ Show \/ ShowRender \/ ViewerSpawn \/ SpawnFails \/ ViewerExit
    \/ ShowReturn

\* a running show goes on by itself; the client and the viewer need not act
SpecShow == Init /\ [][NextShow]_vars /\ WF_vars(ShowSteps)

-----------------------------------------------------------------------------
(* Claims about Diagram.show, checked under SpecShow *)

\* the backend render would select for the same backend argument when the
\* path selects nothing, and the options render would merge
C23_RenderSelection ==
    SelectBackend(<< >>, IF last.backend = Omitted THEN None ELSE last.backend,
                  last.before)

\* C23: show selects the backend as render does (without a backend argument
\* the bound backend when there is one, the default SVG backend only when
\* none is bound) and hands the backend the options render would hand it,
\* explicit_dimensions included, so that the SVG canvas shown has the size
\* of the canvas rendered.
C23_ShowLikeRender ==
    last.op = "show" =>
        /\ last.backend = Omitted =>
              last.rendered_by =
                  IF last.before = NoBackend THEN SVGBackend ELSE last.before
        /\ last.rendered_by = C23_RenderSelection
        /\ last.kwargs = RenderKwargs(last.caller_kwargs)
        /\ Showing("wait") /\ last.rendered_by = SVGBackend =>
              call.written =
                  Written(SVGBackend, last.shapes,
                          RenderKwargs(last.caller_kwargs))

\* C24: once the viewer is spawned show returns control to the caller,
\* whether or not the viewer ever exits.
C24_ShowReturnsAfterSpawn == [](Showing("wait") => <>ClientHasControl)

\* neither the backend argument nor the path extension of the latest render
\* selected a backend
C27_NothingSelected ==
    SelectBackend(last.output_path, last.backend, installed) = installed

\* C27: a backend installed with set_backend stays the diagram's bound
\* backend across render and show calls, and a later render whose backend
\* argument and path extension select nothing is performed by the instance
\* given to set_backend.
C27_InstalledBackendStays ==
    installed # NoBackend =>
        /\ ClientHasControl => _backend = installed
        /\ last.op = "render" /\ C27_NothingSelected =>
              last.rendered_by = installed

-----------------------------------------------------------------------------
-----------------------------------------------------------------------------
(* Factory functions (od_draw/shapes/factory.py)                           *)

\* the parameters of Rectangle.__init__ (base.py:87-97), which Block
\* inherits (base.py:230-232), and of Circle.__init__ (base.py:213-220)
RectangleParameters ==
    { "x", "y", "width", "height", "border_thickness", "border_style",
      "border_color", "background_color", "rotation" }
CircleParameters ==
    { "x", "y", "radius", "border_thickness", "border_color",
      "background_color" }

\* a call that passes a keyword the callee has no parameter for
UnexpectedKeyword == Raised("TypeError", "unexpected keyword argument")

\* Rectangle(**keywords), and Block(**keywords)
Rectangle_call(keywords) ==
    IF ~(DOMAIN keywords \subseteq RectangleParameters) THEN UnexpectedKeyword
    ELSE Shape_init(Rectangle(Get(keywords, "x", 0), Get(keywords, "y", 0),
                              Get(keywords, "width", 100),
                              Get(keywords, "height", 100),
                              Get(keywords, "rotation", 0)),
                    Get(keywords, "border_thickness", PyInt(1)),
                    Get(keywords, "border_style", PyText("solid")),
                    Get(keywords, "border_color", PyNone),
                    Get(keywords, "background_color", PyNone))

\* Circle(**keywords)
Circle_call(keywords) ==
    IF ~(DOMAIN keywords \subseteq CircleParameters) THEN UnexpectedKeyword
    ELSE Shape_init(Circle(Get(keywords, "x", 0), Get(keywords, "y", 0),
                           Get(keywords, "radius", 50)),
                    Get(keywords, "border_thickness", PyInt(1)),
                    PyText("solid"),
                    Get(keywords, "border_color", PyNone),
                    Get(keywords, "background_color", PyNone))

\* factory.py:9-20
block(x0, y0, w, h, fill, stroke, stroke_width) ==
    Rectangle_call([ x |-> x0, y |-> y0, width |-> w, height |-> h,
                     fill |-> fill, stroke |-> stroke,
                     stroke_width |-> stroke_width ])

\* factory.py:23-34
rectangle(x0, y0, w, h, fill, stroke, stroke_width) ==
    Rectangle_call([ x |-> x0, y |-> y0, width |-> w, height |-> h,
                     fill |-> fill, stroke |-> stroke,
                     stroke_width |-> stroke_width ])

\* factory.py:37-45
circle(x0, y0, radius, fill, stroke, stroke_width) ==
    Circle_call([ x |-> x0, y |-> y0, radius |-> radius, fill |-> fill,
                  stroke |-> stroke, stroke_width |-> stroke_width ])

(* SpecFactory: one call of a factory function *)

FactoryCalls ==
    [ op : {"block", "rectangle", "circle"},
      x0 : {0, 10}, y0 : {0, 20}, width : {0, 100}, height : {50},
      radius : {30},
      fill : {PyNone, PyStr(Red)}, stroke : {PyNone, PyStr(Blue)},
      stroke_width : {1, 2} ]

InitFactory ==
    /\ DiagramInit(FALSE, FALSE, DefaultWidth, DefaultHeight, "px")
    /\ SvgIdle
    /\ PngIdle
    /\ call \in FactoryCalls
    /\ result = << >>

NewBlock ==
    /\ call.op = "block" /\ result = << >>
    /\ result' = block(call.x0, call.y0, call.width, call.height, call.fill,
                       call.stroke, call.stroke_width)
    /\ Constructed

NewFactoryRectangle ==
    /\ call.op = "rectangle" /\ result = << >>
    /\ result' = rectangle(call.x0, call.y0, call.width, call.height,
                           call.fill, call.stroke, call.stroke_width)
    /\ Constructed

NewFactoryCircle ==
    /\ call.op = "circle" /\ result = << >>
    /\ result' = circle(call.x0, call.y0, call.radius, call.fill,
                        call.stroke, call.stroke_width)
    /\ Constructed

NextFactory == NewBlock \/ NewFactoryRectangle \/ NewFactoryCircle

SpecFactory == InitFactory /\ [][NextFactory]_vars

\* C25: block, rectangle and circle succeed for every argument combination
\* and return a shape whose x, y, width and height (radius for circle) are
\* x0, y0, width, height (radius) and whose fill, stroke and stroke_width
\* are the values passed.
C25_FactoriesReflectArguments ==
    result # << >> =>
        /\ ~result.raised
        /\ result.value.x = call.x0 /\ result.value.y = call.y0
        /\ IF call.op = "circle" THEN result.value.radius = call.radius
           ELSE /\ result.value.width = call.width
                /\ result.value.height = call.height
        /\ result.value.fill = call.fill
        /\ result.value.stroke = call.stroke
        /\ result.value.stroke_width = call.stroke_width

-----------------------------------------------------------------------------
-----------------------------------------------------------------------------
(* SpecRegister: shapes built for one diagram d, either with diagram=d or  *)
(* standalone and then handed to d.add_shape                               *)

\* the arguments of the constructions (examples/simple_diagram.py:13-44)
RegisterArgs ==
    [ cls : {"Rectangle"}, x : {100, 500}, y : {100, 300}, width : {200},
      height : {100}, radius : {0} ]
    \cup [ cls : {"Circle"}, x : {400}, y : {150}, width : {0}, height : {0},
           radius : {50} ]

\* the keyword arguments of Rectangle(x=..., ...) or Circle(x=..., ...)
RegisterKeywords(c) ==
    IF c.cls = "Circle" THEN [ x |-> c.x, y |-> c.y, radius |-> c.radius ]
    ELSE [ x |-> c.x, y |-> c.y, width |-> c.width, height |-> c.height ]

\* cls(**keywords) for a class of shapes/base.py
Construct(cls, keywords) ==
    IF cls = "Circle" THEN Circle_call(keywords) ELSE Rectangle_call(keywords)

\* the record of a construction: where the class comes from, whether
\* diagram=d was passed, and d.shapes before the call
Construction(module, with_diagram) ==
    [ op |-> "construct", module |-> module, with_diagram |-> with_diagram,
      shapes_before |-> shapes ]

InitRegister ==
    /\ DiagramInit(FALSE, FALSE, DefaultWidth, DefaultHeight, "px")
    /\ SvgIdle
    /\ PngIdle
    /\ CallIdle

\* Rectangle(...) or Circle(...) of shapes/base.py, either with diagram=d
\* (nothing in Shape.__init__ touches a diagram) or standalone and followed
\* by d.add_shape(s) when the constructor has returned
NewShape ==
    /\ \E c \in RegisterArgs, with_diagram \in BOOLEAN :
          /\ result' = Construct(c.cls,
                                 IF with_diagram
                                 THEN ("diagram" :> "d") @@ RegisterKeywords(c)
                                 ELSE RegisterKeywords(c))
          /\ call' = Construction("base", with_diagram)
          /\ IF with_diagram \/ result'.raised THEN UNCHANGED diagram_vars
             ELSE add_shape(result'.value)
    /\ UNCHANGED << svg_vars, png >>

\* Polygon(points, diagram=d) of shapes/polygon.py: registers itself
NewPolygonWithDiagram ==
    /\ \E points \in { RightTriangle, Diamond, << << 0, 0 >>, << 4, 4 >> >> } :
          /\ result' = polygon_Polygon("polygon.Polygon", points, 0)
          /\ IF result'.raised THEN UNCHANGED diagram_vars
             ELSE add_shape(result'.value)
    /\ call' = Construction("polygon", TRUE)
    /\ UNCHANGED << svg_vars, png >>

NextRegister == NewShape \/ NewPolygonWithDiagram

SpecRegister == InitRegister /\ [][NextRegister]_vars

\* C26: a shape of the exported classes constructed with a diagram
\* reference is built without error and is appended to that diagram's shape
\* list exactly once during construction, as add_shape would append it.
C26_RegisteredAtConstruction ==
    IF call = << >> THEN TRUE
    ELSE call.module = "base" /\ call.with_diagram =>
            /\ ~result.raised
            /\ shapes = Append(call.shapes_before, result.value)

-----------------------------------------------------------------------------
(* Claims about paint values of SVG elements, checked under SpecElement    *)

\* a paint value that is none or a 7-character #RRGGBB text with no
\* opacity inside it
PlainPaint(paint) ==
    /\ paint.opacity = NoAlpha
    /\ \/ paint.hex = PaintNone
       \/ Len(paint.hex) = 7 /\ paint.hex[1] = "#"

\* the colour the stroke of the element is taken from
StrokeColorOf(shape) ==
    IF shape.cls = "Line" THEN shape.color ELSE shape.border_color[1]

\* the alpha an opacity attribute has to carry for a colour
AlphaBelowOne(color) ==
    IF color = NoColor THEN NoAlpha
    ELSE IF BelowOne(color.alpha) THEN color.alpha ELSE NoAlpha

\* C29: for every shape and every colour alpha, the fill and stroke values
\* of the emitted element are none or a plain 7-character #RRGGBB value, and
\* an alpha below 1 shows only as a fill-opacity or stroke-opacity attribute
\* equal to that alpha, never inside the paint value.
C29_PlainPaintValues ==
    call.op = "_shape_to_svg" /\ result # << >> =>
        /\ result.value.fill # Absent => PlainPaint(result.value.fill)
        /\ PlainPaint(result.value.stroke)
        /\ result.value.stroke_opacity = AlphaBelowOne(StrokeColorOf(call.shape))
        /\ call.shape.cls # "Line" =>
              result.value.fill_opacity = AlphaBelowOne(call.shape.background_color)

-----------------------------------------------------------------------------
(* SpecDocument: SVGBackend.render writing one document, statement by      *)
(* statement (svg.py:116-160).  The document is the sequence of its        *)
(* top-level nodes after the style block; a node is a record of its tag,   *)
(* id, attributes and children.                                            *)

Node(tag, id, attrs, children) ==
    [ tag |-> tag, id |-> id, attrs |-> attrs, children |-> children ]

\* SVGBackend._create_marker_defs: the four markers of the defs block
_create_marker_defs ==
    Node("defs", "", << >>,
         << "arrow-out", "arrow-in", "circle-marker", "square-marker" >>)

\* list(range(0, stop + 1, step))
range(stop, step) ==
    IF stop < 0 THEN << >> ELSE [ i \in 1..((stop \div step) + 1) |-> (i - 1) * step ]

\* a line element of the grid or of a ruler
GridLine(x1, y1, x2, y2) == << x1, y1, x2, y2 >>

\* the lines of one loop of _create_grid over x, for the xs it keeps
VerticalLines(xs, h, offset_x, offset_y) ==
    [ i \in 1..Len(xs) |->
        GridLine(xs[i] + offset_x, offset_y, xs[i] + offset_x, h + offset_y) ]

\* the lines of one loop of _create_grid over y, for the ys it keeps
HorizontalLines(ys, w, offset_x, offset_y) ==
    [ i \in 1..Len(ys) |->
        GridLine(offset_x, ys[i] + offset_y, w + offset_x, ys[i] + offset_y) ]

\* if x % 100 != 0
NotMajor(x) == x % 100 # 0

\* SVGBackend._create_grid: the group of the minor lines, then the group of
\* the major lines (the width w and the height h are whole numbers, int()
\* leaves them)
_create_grid(w, h, offset_x, offset_y) ==
    Node("g", "grid", << >>,
         << Node("g", "", << "opacity", "0.3" >>,
                 VerticalLines(SelectSeq(range(w, 50), NotMajor), h,
                               offset_x, offset_y)
                 \o HorizontalLines(SelectSeq(range(h, 50), NotMajor), w,
                                    offset_x, offset_y)),
            Node("g", "", << "opacity", "0.25" >>,
                 VerticalLines(range(w, 100), h, offset_x, offset_y)
                 \o HorizontalLines(range(h, 100), w, offset_x, offset_y)) >>)

\* SVGBackend._create_rulers: the tick marks along the top and the left
\* (the backgrounds and the texts are left out)
_create_rulers(content_width, content_height, ruler_left, ruler_top) ==
    Node("g", "rulers", << >>,
         [ i \in 1..Len(range(content_width, 50)) |->
             GridLine(range(content_width, 50)[i] + ruler_left, ruler_top - 5,
                      range(content_width, 50)[i] + ruler_left, ruler_top) ]
         \o [ i \in 1..Len(range(content_height, 50)) |->
                GridLine(ruler_left - 5, range(content_height, 50)[i] + ruler_top,
                         ruler_left, range(content_height, 50)[i] + ruler_top) ])

\* <g transform="translate(x, y)"> with the elements written so far
ShapesGroup(x, y, elements) == Node("g", "shapes", << x, y >>, elements)

\* svg_content += text, for the text of an element or of no element
PlusElement(elements, element) ==
    IF element = NoElement THEN elements ELSE Append(elements, element)

\* the shapes of the lists rendered: a Rectangle, a Circle and a Line of
\* shapes/base.py and a Polygon of shapes/polygon.py
DocPool ==
    { Shape_init(g, PyInt(1), PyText("solid"), PyNone, PyNone).value :
        g \in { Rectangle(10, 10, 100, 50, 0), Circle(5, 5, 10) } }
    \cup { Line_init(Line(3, 70, 90, 4), 1, PyNone, "solid", "none",
                     "arrow-out").value,
           polygon_Polygon("polygon.Polygon", RightTriangle, 0).value }

DocShapeLists == UNION { [1..n -> DocPool] : n \in 0..MaxSvgShapes }

\* the options bags: the diagram's entries and the caller's show_grid,
\* show_rulers and margin
DocKwargs ==
    { Merge([ width |-> 300, height |-> 200, explicit_dimensions |-> e,
              width_provided |-> e, height_provided |-> e ],
            Opt("show_grid", g[1], TRUE) @@ Opt("show_rulers", g[2], TRUE)
              @@ Opt("margin", g[3], 20)) :
        e \in BOOLEAN, g \in [1..3 -> BOOLEAN] }

InitDocument ==
    /\ DiagramInit(FALSE, FALSE, DefaultWidth, DefaultHeight, "px")
    /\ pc = "ready"
    /\ svg_shapes \in DocShapeLists
    /\ svg_kwargs \in DocKwargs
    /\ svg = << >>
    /\ PngIdle
    /\ CallIdle

\* the position of render in its document
Writing(stage, content, group, i) ==
    [ op |-> "render", stage |-> stage, svg_content |-> content,
      group |-> group, i |-> i ]

\* svg.py:79-126: the layout, the header and the marker definitions
WriteDefs ==
    /\ pc = "ready"
    /\ svg' = SVGBackend_render(svg_shapes, svg_kwargs)
    /\ pc' = "writing"
    /\ call' = Writing("grid", << _create_marker_defs >>, << >>, 1)
    /\ UNCHANGED << svg_shapes, svg_kwargs, png, result, diagram_vars >>

\* svg.py:133-143: the grid if requested, then the opening of the group
WriteGrid ==
    /\ pc = "writing" /\ call.stage = "grid"
    /\ call' = Writing("shapes",
                       IF Get(svg_kwargs, "show_grid", FALSE)
                       THEN Append(call.svg_content,
                                   _create_grid(svg.content_width,
                                                svg.content_height,
                                                svg.canvas_width - svg.content_width,
                                                svg.canvas_height - svg.content_height))
                       ELSE call.svg_content,
                       << >>, 1)
    /\ UNCHANGED << svg_vars, png, result, diagram_vars >>

\* svg.py:146-147: one turn of the loop over the shapes
WriteShape ==
    /\ pc = "writing" /\ call.stage = "shapes"
    /\ call.i <= Len(svg_shapes)
    /\ call' = Writing("shapes", call.svg_content,
                       PlusElement(call.group,
                                   _shape_to_svg(svg_shapes[call.i])),
                       call.i + 1)
    /\ UNCHANGED << svg_vars, png, result, diagram_vars >>

\* svg.py:149-160: the end of the group, the rulers if requested, the file
WriteRulers ==
    /\ pc = "writing" /\ call.stage = "shapes"
    /\ call.i > Len(svg_shapes)
    /\ pc' = "done"
    /\ call' = Writing("written", call.svg_content, call.group, call.i)
    /\ result' =
          Returned(Append(call.svg_content,
                          ShapesGroup(svg.shape_offset_x, svg.shape_offset_y,
                                      call.group))
                   \o IF Get(svg_kwargs, "show_rulers", FALSE)
                      THEN << _create_rulers(svg.content_width,
                                             svg.content_height,
                                             svg.canvas_width - svg.content_width,
                                             svg.canvas_height - svg.content_height) >>
                      ELSE << >>)
    /\ UNCHANGED << svg_shapes, svg_kwargs, svg, png, diagram_vars >>

NextDocument == WriteDefs \/ WriteGrid \/ WriteShape \/ WriteRulers

SpecDocument == InitDocument /\ [][NextDocument]_vars

\* what a top-level node of the document is
Part(node) == IF node.tag = "defs" THEN "defs" ELSE node.id

PartsOf(content) == [ i \in 1..Len(content) |-> Part(content[i]) ]

\* the parts of the document the options ask for, in the fixed order
PartsAsked ==
    << "defs" >>
    \o (IF Get(svg_kwargs, "show_grid", FALSE) THEN << "grid" >> ELSE << >>)
    \o << "shapes" >>
    \o (IF Get(svg_kwargs, "show_rulers", FALSE) THEN << "rulers" >>
        ELSE << >>)

\* the node of the written document that is the given part
PartOfDocument(part) ==
    result.value[CHOOSE i \in 1..Len(result.value) :
                    Part(result.value[i]) = part]

LinesOf(group) == { group.children[i] : i \in 1..Len(group.children) }

\* the offsets from the drawing start at which the grid group has a
\* vertical line
VerticalAt(group) ==
    { l[1] - (svg.canvas_width - svg.content_width) :
        l \in { m \in LinesOf(group) : m[1] = m[3] } }

\* the offsets from the drawing start at which the grid group has a
\* horizontal line
HorizontalAt(group) ==
    { l[2] - (svg.canvas_height - svg.content_height) :
        l \in { m \in LinesOf(group) : m[2] = m[4] } }

MultiplesUpTo(stop, step) == { k \in 0..stop : k % step = 0 }

\* render has written a document
Written28 == pc = "done" /\ result # << >>

\* C28: every SVG document holds, in this order, the marker definitions
\* block exactly once, the grid group when show_grid is set, one translated
\* group with one element per shape in shape-list order, and the rulers
\* group when show_rulers is set; what is written at any moment is a
\* beginning of that order, so the grid precedes every shape; and the grid
\* has its major lines at the multiples of 100 and its minor lines at the
\* multiples of 50 that are not multiples of 100.
C28_DocumentOrder ==
    /\ pc = "writing" =>
          /\ Len(call.svg_content) <= Len(PartsAsked)
          /\ PartsOf(call.svg_content)
               = SubSeq(PartsAsked, 1, Len(call.svg_content))
          /\ call.group = [ i \in 1..(call.i - 1) |-> _shape_to_svg(svg_shapes[i]) ]
    /\ Written28 =>
          /\ PartsOf(result.value) = PartsAsked
          /\ PartOfDocument("shapes").attrs
               = << svg.shape_offset_x, svg.shape_offset_y >>
          /\ PartOfDocument("shapes").children
               = [ i \in 1..Len(svg_shapes) |-> _shape_to_svg(svg_shapes[i]) ]
          /\ \A i \in 1..Len(PartOfDocument("shapes").children) :
                PartOfDocument("shapes").children[i] # NoElement
          /\ Get(svg_kwargs, "show_grid", FALSE) =>
                LET minor == PartOfDocument("grid").children[1]
                    major == PartOfDocument("grid").children[2]
                IN  /\ LinesOf(minor) \cap LinesOf(major) = {}
                    /\ VerticalAt(major) = MultiplesUpTo(svg.content_width, 100)
                    /\ HorizontalAt(major) = MultiplesUpTo(svg.content_height, 100)
                    /\ VerticalAt(minor) = MultiplesUpTo(svg.content_width, 50) \ MultiplesUpTo(svg.content_width, 100)
                    /\ HorizontalAt(minor) = MultiplesUpTo(svg.content_height, 50) \ MultiplesUpTo(svg.content_height, 100)

-----------------------------------------------------------------------------
(* SpecPages: the File and Page objects of od_draw/drawio (file.py,        *)
(* page.py).  The objects are held in call: the page list of each File,    *)
(* and the _file and name of each Page in creation order; result is what   *)
(* the latest operation returned or raised.                                *)

\* most Page objects constructed
MaxPages == 3
\* longest page list of a File
MaxPageList == 2

FileIds == {"f", "g"}

\* f"Page-{page_num}"
DefaultPageName(page_num) == << "Page-", page_num >>

\* the position of the first occurrence of x in list, 0 when there is none
FirstIndex(list, x) ==
    IF \E i \in 1..Len(list) : list[i] = x
    THEN CHOOSE i \in 1..Len(list) :
            list[i] = x /\ \A j \in 1..(i - 1) : list[j] # x
    ELSE 0

\* del list[k] for a position k of the list
DelAt(list, k) == SubSeq(list, 1, k - 1) \o SubSeq(list, k + 1, Len(list))

\* list.remove(x)
list_remove(list, x) ==
    IF FirstIndex(list, x) = 0
    THEN Raised("ValueError", "list.remove(x): x not in list")
    ELSE Returned(DelAt(list, FirstIndex(list, x)))

\* the File and Page objects
Objects(op, pages, _file, name) ==
    [ op |-> op, pages |-> pages, _file |-> _file, name |-> name ]

PageIds == IF call = << >> THEN {} ELSE 1..Len(call._file)

\* File.add_page
add_page(objects, file, page) ==
    [ objects EXCEPT !._file[page] = file,
                     !.pages[file] = Append(@, page) ]

\* File.remove_page(page) for a Page: the objects after the call, or the
\* error of list.remove
remove_page(objects, file, page) ==
    IF list_remove(objects.pages[file], page).raised
    THEN list_remove(objects.pages[file], page)
    ELSE Returned([ objects EXCEPT
                      !.pages[file] = list_remove(@, page).value ])

\* File.remove_page(name) for a str: the first page of that name, if any
remove_page_str(objects, file, name) ==
    IF \E i \in 1..Len(objects.pages[file]) :
          objects.name[objects.pages[file][i]] = name
    THEN LET i == CHOOSE i \in 1..Len(objects.pages[file]) :
                     /\ objects.name[objects.pages[file][i]] = name
                     /\ \A j \in 1..(i - 1) :
                           objects.name[objects.pages[file][j]] # name
         IN  remove_page(objects, file, objects.pages[file][i])
    ELSE Returned(objects)

\* File.remove_page(index) for an int: del self.pages[index], a negative
\* index counting from the end
remove_page_int(objects, file, index) ==
    LET n == Len(objects.pages[file])
    IN  IF index >= n \/ index < -n
        THEN Raised("IndexError", "list assignment index out of range")
        ELSE Returned([ objects EXCEPT
                          !.pages[file] =
                             DelAt(@, IF index < 0 THEN n + index + 1
                                      ELSE index + 1) ])

\* the setter of Page.file
set_file(objects, page, f) ==
    IF f # None THEN add_page(objects, f, page)
    ELSE [ objects EXCEPT !._file[page] = None ]

\* Page.__init__(file=f): the new page is the next in creation order
Page_init(objects, f) ==
    LET page == Len(objects._file) + 1
        made == [ objects EXCEPT !._file = Append(@, None),
                                 !.name = Append(@, << >>) ]
        filed == set_file(made, page, f)
        page_num == IF f # None THEN Len(filed.pages[f]) ELSE 1
    IN  [ filed EXCEPT !.name[page] = DefaultPageName(page_num) ]

\* the outcome of an operation that returns None or raises: the objects
\* change only when it returns
Outcome(op, outcome) ==
    /\ call' = IF outcome.raised THEN [ call EXCEPT !.op = op ]
               ELSE [ outcome.value EXCEPT !.op = op ]
    /\ result' = IF outcome.raised THEN outcome ELSE Returned(None)
    /\ UNCHANGED << diagram_vars, svg_vars, png >>

\* no list of the objects is longer than the longest list
Bounded(objects) ==
    \A f \in FileIds : Len(objects.pages[f]) <= MaxPageList

InitPages ==
    /\ DiagramInit(FALSE, FALSE, DefaultWidth, DefaultHeight, "px")
    /\ SvgIdle
    /\ PngIdle
    /\ call = Objects("File", [ f \in FileIds |-> << >> ], << >>, << >>)
    /\ result = << >>

NewPage ==
    /\ Len(call._file) < MaxPages
    /\ \E f \in FileIds \cup {None} :
          /\ Bounded(Page_init(call, f))
          /\ Outcome("Page", Returned(Page_init(call, f)))

AddPage ==
    \E f \in FileIds, p \in PageIds :
        /\ Bounded(add_page(call, f, p))
        /\ Outcome("add_page", Returned(add_page(call, f, p)))

RemovePage ==
    \E f \in FileIds, p \in PageIds :
        Outcome("remove_page", remove_page(call, f, p))

RemovePageByName ==
    \E f \in FileIds, n \in 1..MaxPageList :
        Outcome("remove_page", remove_page_str(call, f, DefaultPageName(n)))

RemovePageByIndex ==
    \E f \in FileIds, i \in (-1)..1 :
        Outcome("remove_page", remove_page_int(call, f, i))

\* Page.remove
PageRemove ==
    \E p \in PageIds :
        Outcome("remove",
                IF call._file[p] # None
                THEN remove_page(call, call._file[p], p)
                ELSE Returned(call))

\* page.file = f
SetFile ==
    \E p \in PageIds, f \in FileIds \cup {None} :
        /\ Bounded(set_file(call, p, f))
        /\ Outcome("file.setter", Returned(set_file(call, p, f)))

\* del page.file: the removal first, then _file = None if it did not raise
DelFile ==
    \E p \in PageIds :
        Outcome("file.deleter",
                IF call._file[p] = None THEN Returned(call)
                ELSE IF remove_page(call, call._file[p], p).raised
                THEN remove_page(call, call._file[p], p)
                ELSE Returned([ remove_page(call, call._file[p], p).value
                                  EXCEPT !._file[p] = None ]))

NextPages ==
    \/ NewPage \/ AddPage \/ RemovePage \/ RemovePageByName
    \/ RemovePageByIndex \/ PageRemove \/ SetFile \/ DelFile

SpecPages == InitPages /\ [][NextPages]_vars

\* the pages of the file's list, as a set
InList(f) == { call.pages[f][i] : i \in 1..Len(call.pages[f]) }

\* C30: after any sequence of Page(file=...), add_page, remove_page (by
\* page, name or index), Page.remove and assignments or deletions of
\* Page.file, each page occurs at most once in a file's page list, a page is
\* in a file's page list if and only if its file is that file, and the
\* default names of the pages of one file are pairwise distinct.
C30_FileAndPagesConsistent ==
    \A f \in FileIds :
        /\ \A i, j \in 1..Len(call.pages[f]) :
              call.pages[f][i] = call.pages[f][j] => i = j
        /\ \A p \in PageIds : p \in InList(f) <=> call._file[p] = f
        /\ \A p, q \in InList(f) : call.name[p] = call.name[q] => p = q

====
